---- MODULE Spec2Model ----
(***************************************************************************)
(* A model of the chapter pipeline of src/src/Episode.py: the image        *)
(* manifest resolver (init_imgsList), the image acquisition step           *)
(* (downloadImg) and the archive assembly engine (save and its writers).   *)
(*                                                                         *)
(* Spec      the session: several chapters run init_imgsList and           *)
(*           downloadImg concurrently and share mainGUI.need_sms_verify.   *)
(* SpecSave  one chapter's save() on a file system that already holds the  *)
(*           artifact of a sibling chapter.                                *)
(*                                                                         *)
(* A Python exception that leaves a method is the outcome "raise".         *)
(***************************************************************************)
EXTENDS Integers, Sequences, FiniteSets, TLC

\* ------------------------------------------------------------------------
\* Bounds of the model
\* ------------------------------------------------------------------------
\* Attempts a duration-bounded retry (stop_max_delay) may make before its
\* time budget is over; the budget may also run out earlier.
MaxNetAttempts == 2
\* Largest number of staged images handed to save().
MaxImgs == 2
\* Largest chapter sequence index (self.idx) and largest page position
\* (index) of a downloadImg call.
MaxIdx == 11
MaxIndex == 11
\* Longest short title and long title of a chapter, in characters; most
\* tokens of a rename rule; largest integer part of a chapter ordinal.
MaxShortLen == 2
MaxLongLen == 3
MaxRuleLen == 2
MaxOrd == 1

\* The chapters of the session (two Episode objects sharing one mainGUI).
Chapters == {"epA", "epB"}

\* ------------------------------------------------------------------------
\* Program constants
\* ------------------------------------------------------------------------
\* one attempt more than the decorator allows
MaxIoAttemptsPlusOne == 5 + 1

\* @retry(stop_max_attempt_number=5): writers, saveToFolder, staged write
MaxIoAttempts == 5

VARIABLES
    \* ---- session (Spec) ----
    need_sms_verify,   \* mainGUI.need_sms_verify, the process-wide lockout flag
    hash_check,        \* mainGUI.getConfig("hash_check")
    pc,                \* per chapter: position inside the running method
    op,                \* per chapter: the method that runs or ran last
    tries,             \* per chapter: attempts made by the current @retry loop
    result,            \* per chapter: outcome of the method that ran last
    warn,              \* per chapter: events emitted by the current/last call
    imgs_token,        \* per chapter: self.imgs_token
    resolved,          \* per chapter: its last init_imgsList returned True
    flagAtStart,       \* per chapter: need_sms_verify when the call began
    mismatch,          \* per chapter: the call saw a checksum mismatch
    getUnderLock,      \* an image GET was issued while need_sms_verify
    last,              \* per chapter: the latest server response of the call
    \* ---- assembly (SpecSave) ----
    save_method,       \* self.save_method
    exif_setting,      \* self.exif_setting
    title,             \* self.title (decides self.epi_path)
    imgs_path,         \* the caller's list of staged paths (positions)
    staged,            \* positions whose staged file exists on disk
    dir,               \* title -> folder <save_root>/<title>: NoDir or entries
    file,              \* title -> file <save_root>/<title>.<ext>: NoFile or record
    spc,               \* position inside save(); "cleared" after clear()
    sattempt,          \* attempts made by the current writer's @retry loop
    sresult,           \* outcome of save() or clear(): "none", "path", None, "raise"
    swarn,             \* warning events emitted by save()
    folderWarn,        \* saveToFolder gave up and emitted its warning
    archDir,           \* the staged folder as the archive writer first found it
    archFailed,        \* some attempt of the archive writer has failed
    stageFaults,       \* file-system faults saveToFolder has met so far
    \* ---- staging paths (SpecPath) ----
    wpc,               \* per worker: "idle", or "done" after its staged write
    wreq,              \* per worker: self.idx, index and img_url of its call
    wpath,             \* per worker: path_to_save of its call
    \* ---- chapter titles (SpecTitle) ----
    episode,           \* the chapter's fields as __init__ received them
    rename_rule,       \* mainGUI.getConfig("rename_rule")
    self_idx,          \* self.idx
    self_ord,          \* self.ord
    short_title,       \* self.short_title
    long_title,        \* self.long_title
    self_title,        \* self.title
    epi_path,          \* self.epi_path
    tpc,               \* "new", "titled", "retitled" (default title run twice), "built"
    twarn,             \* warning events emitted by __init__
    \* ---- format suffix (SpecSuffix) ----
    img_format,        \* mainGUI.getConfig("img_format", "default")
    images,            \* the path fragments of the fetched image list
    imgs_urls,         \* the URL list handed to the token request
    fpc,               \* "fetched", then "suffixed" or "KeyError"
    \* ---- reversal transform (SpecReverse) ----
    sent,              \* flag, ciphertext and key material the server sent
    res_content,       \* res.content, the bytes of the response
    hit_encrypt,       \* the content type of the response is not image/*
    cpx_char,          \* base64.b64decode(unquote(cpx)), empty for an empty cpx
    img,               \* the nonlocal img of the transform
    rexc,              \* the exception the transform raised, "none" if none
    rpc,               \* "got", "once", "twice": runs on the same response
    \* ---- isDownloaded (SpecGlob) ----
    disk,              \* the paths that exist under the save root
    downloaded,        \* what isDownloaded returned
    gpc,               \* "ask", then "told"
    \* ---- chapter list of the UI (SpecUI) ----
    chp_items,         \* listWidget_chp_detail: per row, enabled and checked
    num_selected,      \* self.num_selected
    tasks,             \* per chapter: how often it was handed to addTask
    artifact,          \* per chapter: epi.isDownloaded()
    available,         \* per chapter: epi.isAvailable()
    \* ---- comic search (SpecSearch) ----
    search_pc,         \* "post" while getResults runs, then "done"
    search_log,        \* how the attempts made so far failed
    search_returned,   \* "none", "list" (a list was returned) or "raise"
    search_data,       \* the list getResults returned
    search_exc,        \* the exception that left getResults, "none" if none
    search_warn        \* QMessageBox.warning calls of getResults

netVars  == <<need_sms_verify, hash_check, pc, op, tries, result, warn,
              imgs_token, resolved, flagAtStart, mismatch, getUnderLock,
              last>>
saveVars == <<save_method, exif_setting, title, imgs_path, staged, dir, file,
              spc, sattempt, sresult, swarn, folderWarn, archDir, archFailed,
              stageFaults>>
pathVars == <<wpc, wreq, wpath>>
titleVars == <<episode, rename_rule, self_idx, self_ord, short_title,
               long_title, self_title, epi_path, tpc, twarn>>
fmtVars  == <<img_format, images, imgs_urls, fpc>>
revVars  == <<sent, res_content, hit_encrypt, cpx_char, img, rexc, rpc>>
globVars == <<disk, downloaded, gpc>>
uiVars   == <<chp_items, num_selected, tasks, artifact, available>>
searchVars == <<search_pc, search_log, search_returned, search_data,
                search_exc, search_warn>>
auxVars  == <<globVars, uiVars, searchVars>>
pureVars == <<pathVars, titleVars, fmtVars, revVars, auxVars>>
vars     == <<netVars, saveVars, pureVars>>

None == "None"

\* ------------------------------------------------------------------------
\* Server responses
\* ------------------------------------------------------------------------
\* GetImageIndex: transport error, non-200 status, 200 with the image list,
\* 200 whose body has no data.images (res.json()["data"]["images"] raises),
\* and 200 with an application-level code # 0, whose body either has no data
\* ("code_nodata", the error envelope) or still carries data.images
\* ("code_data").
ListResponses == {"error", "non200", "ok", "nodata", "code_nodata", "code_data"}

\* line 217: the list request reads data.images and never looks at "code"
ListAccepted(r) == r \in {"ok", "code_data"}
ListRequestError(r) == r \in {"error", "non200"}

\* One entry of the ImageToken data array; each URL field either carries the
\* marker "token=" ("tok") or does not ("plain").
UrlKinds == {"tok", "plain"}
TokenEntry == [complete_url : UrlKinds, url : UrlKinds]

\* ImageToken: transport error, non-200 status, 200 with code # 0,
\* 200 with code 0 and data = [] ("empty"), 200 with code 0 and entries
TokenFailures == {"error", "non200", "code"}

\* "token=" in s
HasToken(s) == s = "tok"

\* line 298 with the test dropped: the resolver never looks at the flag
NeedSmsVerifyIgnored(flag) == FALSE

\* line 298: if self.mainGUI.need_sms_verify: return False
NeedSmsVerify(flag) == flag

\* line 301 with "or" for "and": one URL without the marker is enough
IsLockedOutEither(first_img) ==
    ~HasToken(first_img.complete_url) \/ ~HasToken(first_img.url)

\* line 301: the risk-control test on the first returned entry
IsLockedOut(first_img) ==
    ~HasToken(first_img.complete_url) /\ ~HasToken(first_img.url)


\* GET of one image: transport error, non-200 status, 200 without an Etag
\* header, 200 with Etag but without a content-type header ("noctype":
\* res.headers.get("content-type") is None), or a payload.
GetFailures == {"error", "non200", "noetag"}

\* A downloaded payload, as far as the processing step looks at it:
\*   hit_encrypt  the content type is not image/*
\*   flag0        the first byte of the buffer is 0
\*   sumok        the checksum of the final bytes equals the Etag header
Payloads == [hit_encrypt : BOOLEAN, flag0 : BOOLEAN, sumok : BOOLEAN]

\* @retry(stop_max_attempt_number=1) at line 687: the reversal transform
MaxReverseAttempts == 1

\* line 690: the transform runs only with a key parameter on a payload whose
\* content type is not an image type
HitReverse(p, cpx) == cpx /\ p.hit_encrypt

\* how often the transform body ran: a zero flag byte fails every attempt
Reversals(p, cpx) ==
    IF ~HitReverse(p, cpx) THEN 0
    ELSE IF p.flag0 THEN MaxReverseAttempts ELSE 1

\* the bytes in img after lines 687-702
ImgAfter(p, cpx) == IF HitReverse(p, cpx) THEN "reversed" ELSE "raw"

\* the latest response of a call, kept for the properties below
NoLast == [at |-> "none", kind |-> "none", hit_encrypt |-> FALSE,
           flag0 |-> FALSE, sumok |-> FALSE, cpx |-> FALSE, reversals |-> 0,
           img |-> "none"]
LastAt(where, k) == [NoLast EXCEPT !.at = where, !.kind = k]
LastPayload(p, cpx) ==
    [at |-> "get", kind |-> "payload", hit_encrypt |-> p.hit_encrypt,
     flag0 |-> p.flag0, sumok |-> p.sumok, cpx |-> cpx,
     reversals |-> Reversals(p, cpx), img |-> ImgAfter(p, cpx)]

\* lines 695-697 without the flag test: a zero flag byte is decoded like any
\* other buffer
ProcessImgNoFlagTest(p, cpx, check) ==
    IF check /\ ~p.sumok THEN "mismatch" ELSE "ok"

\* lines 687-713: the reversal transform and the checksum test, applied once
\* to the payload of the successful GET.
ProcessImg(p, cpx, check) ==
    IF HitReverse(p, cpx) /\ p.flag0 THEN "ValueError"
    ELSE IF check /\ ~p.sumok THEN "mismatch"
    ELSE "ok"

\* ------------------------------------------------------------------------
\* The session: init_imgsList and downloadImg of every chapter
\* ------------------------------------------------------------------------
InitNet ==
    /\ need_sms_verify = FALSE
    /\ pc = [c \in Chapters |-> "idle"]
    /\ op = [c \in Chapters |-> "none"]
    /\ tries = [c \in Chapters |-> 0]
    /\ result = [c \in Chapters |-> "none"]
    /\ warn = [c \in Chapters |-> 0]
    /\ imgs_token = [c \in Chapters |-> None]
    /\ resolved = [c \in Chapters |-> FALSE]
    /\ flagAtStart = [c \in Chapters |-> FALSE]
    /\ mismatch = [c \in Chapters |-> FALSE]
    /\ getUnderLock = FALSE
    /\ last = [c \in Chapters |-> NoLast]

\* The method of chapter c ends with outcome r after emitting n events.
Finish(c, r, n) ==
    /\ pc' = [pc EXCEPT ![c] = "idle"]
    /\ tries' = [tries EXCEPT ![c] = 0]
    /\ result' = [result EXCEPT ![c] = r]
    /\ warn' = [warn EXCEPT ![c] = @ + n]

\* the handler after the retried request without its warning box
NetFailSilent(c, caught, failValue) ==
    \/ /\ tries[c] + 1 < MaxNetAttempts
       /\ tries' = [tries EXCEPT ![c] = @ + 1]
       /\ UNCHANGED <<pc, result, warn>>
    \/ IF caught THEN Finish(c, failValue, 0) ELSE Finish(c, "raise", 0)

\* no handler after the retried request: the last exception leaves the method
NetFailUncaught(c, caught, failValue) ==
    \/ /\ tries[c] + 1 < MaxNetAttempts
       /\ tries' = [tries EXCEPT ![c] = @ + 1]
       /\ UNCHANGED <<pc, result, warn>>
    \/ Finish(c, "raise", 0)

\* A failed attempt inside @retry(stop_max_delay=...): retrying retries on
\* every exception while the time budget lasts and then re-raises the last
\* one.  The enclosing handler catches only requests.RequestException
\* (caught): it emits the warning box and returns failValue; any other
\* exception leaves the method.
NetFail(c, caught, failValue) ==
    \/ /\ tries[c] + 1 < MaxNetAttempts
       /\ tries' = [tries EXCEPT ![c] = @ + 1]
       /\ UNCHANGED <<pc, result, warn>>
    \/ IF caught THEN Finish(c, failValue, 1) ELSE Finish(c, "raise", 0)

InitImgsListStart(c) ==
    /\ pc[c] = "idle"
    /\ pc' = [pc EXCEPT ![c] = "list"]
    /\ op' = [op EXCEPT ![c] = "init_imgsList"]
    /\ tries' = [tries EXCEPT ![c] = 0]
    /\ result' = [result EXCEPT ![c] = "none"]
    /\ warn' = [warn EXCEPT ![c] = 0]
    /\ resolved' = [resolved EXCEPT ![c] = FALSE]
    /\ flagAtStart' = [flagAtStart EXCEPT ![c] = need_sms_verify]
    /\ mismatch' = [mismatch EXCEPT ![c] = FALSE]
    /\ last' = [last EXCEPT ![c] = NoLast]
    /\ UNCHANGED <<need_sms_verify, hash_check, imgs_token, getUnderLock>>
    /\ UNCHANGED <<saveVars, pureVars>>

\* lines 198-232: one attempt of the image-list request
FetchList(c) ==
    /\ pc[c] = "list"
    /\ \E r \in ListResponses :
          /\ last' = [last EXCEPT ![c] = LastAt("list", r)]
          /\ IF ListRequestError(r) THEN NetFail(c, TRUE, "False")
             ELSE IF ListAccepted(r)
               THEN /\ pc' = [pc EXCEPT ![c] = "token"]
                    /\ tries' = [tries EXCEPT ![c] = 0]
                    /\ UNCHANGED <<result, warn>>
             ELSE NetFail(c, FALSE, "False")      \* KeyError / TypeError
    /\ UNCHANGED <<need_sms_verify, hash_check, op, imgs_token, resolved,
                   flagAtStart, mismatch, getUnderLock>>
    /\ UNCHANGED <<saveVars, pureVars>>

\* lines 260-294: one attempt of the token request
FetchTokens(c) ==
    /\ pc[c] = "token"
    /\ \/ /\ \E r \in TokenFailures :
                /\ NetFail(c, TRUE, "False")
                /\ last' = [last EXCEPT ![c] = LastAt("token", r)]
          /\ UNCHANGED imgs_token
       \/ /\ \E data \in {<<>>} \cup {<<e>> : e \in TokenEntry} :
                imgs_token' = [imgs_token EXCEPT ![c] = data]
          /\ last' = [last EXCEPT ![c] = LastAt("token", "ok")]
          /\ pc' = [pc EXCEPT ![c] = "check"]
          /\ tries' = [tries EXCEPT ![c] = 0]
          /\ UNCHANGED <<result, warn>>
    /\ UNCHANGED <<need_sms_verify, hash_check, op, resolved, flagAtStart,
                   mismatch, getUnderLock>>
    /\ UNCHANGED <<saveVars, pureVars>>

\* lines 298-301 and 313: the flag test and the test of the first entry
LockoutCheck(c) ==
    /\ pc[c] = "check"
    /\ IF NeedSmsVerify(need_sms_verify)
         THEN Finish(c, "False", 0) /\ UNCHANGED resolved
       ELSE IF imgs_token[c] = <<>>
         THEN Finish(c, "raise", 0) /\ UNCHANGED resolved
       ELSE IF IsLockedOut(imgs_token[c][1])
         THEN /\ pc' = [pc EXCEPT ![c] = "lock"]
              /\ UNCHANGED <<tries, result, warn, resolved>>
       ELSE /\ Finish(c, "True", 0)
            /\ resolved' = [resolved EXCEPT ![c] = TRUE]
    /\ UNCHANGED <<need_sms_verify, hash_check, op, imgs_token, flagAtStart,
                   mismatch, getUnderLock, last>>
    /\ UNCHANGED <<saveVars, pureVars>>

\* lines 302-311: set the flag, emit the verification prompt, return False
SetLockout(c) ==
    /\ pc[c] = "lock"
    /\ need_sms_verify' = TRUE
    /\ Finish(c, "False", 1)
    /\ UNCHANGED <<hash_check, op, imgs_token, resolved, flagAtStart,
                   mismatch, getUnderLock, last>>
    /\ UNCHANGED <<saveVars, pureVars>>

\* The caller hands a resolved chapter's locators to downloadImg.
DownloadImgStart(c) ==
    /\ pc[c] = "idle"
    /\ resolved[c]
    /\ pc' = [pc EXCEPT ![c] = "get"]
    /\ op' = [op EXCEPT ![c] = "downloadImg"]
    /\ tries' = [tries EXCEPT ![c] = 0]
    /\ result' = [result EXCEPT ![c] = "none"]
    /\ warn' = [warn EXCEPT ![c] = 0]
    /\ flagAtStart' = [flagAtStart EXCEPT ![c] = need_sms_verify]
    /\ mismatch' = [mismatch EXCEPT ![c] = FALSE]
    /\ last' = [last EXCEPT ![c] = NoLast]
    /\ UNCHANGED <<need_sms_verify, hash_check, imgs_token, resolved,
                   getUnderLock>>
    /\ UNCHANGED <<saveVars, pureVars>>

\* lines 646-725: one attempt of the image GET; a 200 response with Etag and
\* content type is then processed (reversal transform, checksum test).
DownloadGet(c) ==
    /\ pc[c] = "get"
    /\ getUnderLock' = (getUnderLock \/ need_sms_verify)
    /\ \/ /\ \E r \in GetFailures :
                /\ NetFail(c, TRUE, None)
                /\ last' = [last EXCEPT ![c] = LastAt("get", r)]
          /\ UNCHANGED mismatch
       \/ /\ NetFail(c, FALSE, None)          \* no content-type header
          /\ last' = [last EXCEPT ![c] = LastAt("get", "noctype")]
          /\ UNCHANGED mismatch
       \/ \E p \in Payloads, cpx \in BOOLEAN :
             LET o == ProcessImg(p, cpx, hash_check) IN
             /\ last' = [last EXCEPT ![c] = LastPayload(p, cpx)]
             /\ CASE o = "ValueError" ->
                        Finish(c, "raise", 0) /\ UNCHANGED mismatch
                  [] o = "mismatch" ->
                        /\ Finish(c, "raise", 1)
                        /\ mismatch' = [mismatch EXCEPT ![c] = TRUE]
                  [] o = "ok" ->
                        /\ pc' = [pc EXCEPT ![c] = "write"]
                        /\ tries' = [tries EXCEPT ![c] = 0]
                        /\ UNCHANGED <<result, warn, mismatch>>
    /\ UNCHANGED <<need_sms_verify, hash_check, op, imgs_token, resolved,
                   flagAtStart>>
    /\ UNCHANGED <<saveVars, pureVars>>

\* lines 732-758: one attempt of the staged-file write
DownloadWrite(c) ==
    /\ pc[c] = "write"
    /\ \/ Finish(c, "path", 0)
       \/ IF tries[c] + 1 < MaxIoAttempts
            THEN /\ tries' = [tries EXCEPT ![c] = @ + 1]
                 /\ UNCHANGED <<pc, result, warn>>
            ELSE Finish(c, None, 1)
    /\ UNCHANGED <<need_sms_verify, hash_check, op, imgs_token, resolved,
                   flagAtStart, mismatch, getUnderLock, last>>
    /\ UNCHANGED <<saveVars, pureVars>>

\* ------------------------------------------------------------------------
\* Strings and the file names built from them
\* ------------------------------------------------------------------------
\* Strings are sequences of characters.
Digits == <<"0", "1", "2", "3", "4", "5", "6", "7", "8", "9">>

\* str(n) / f"{n}" for a non-negative int
RECURSIVE Str(_)
Str(n) == IF n < 10 THEN <<Digits[n + 1]>>
          ELSE Str(n \div 10) \o <<Digits[(n % 10) + 1]>>

\* s.split(ch)[-1]: what follows the last ch, the whole string if there is none
RECURSIVE AfterLast(_, _)
AfterLast(s, ch) ==
    IF \A i \in 1..Len(s) : s[i] # ch THEN s
    ELSE AfterLast(Tail(s), ch)

\* s.split(ch)[0]: what precedes the first ch
RECURSIVE BeforeFirst(_, _)
BeforeFirst(s, ch) ==
    IF s = <<>> \/ s[1] = ch THEN <<>>
    ELSE <<s[1]>> \o BeforeFirst(Tail(s), ch)

\* s.lower() on the letters that occur in ImgUrls
LowerOf(ch) == CASE ch = "J" -> "j" [] ch = "P" -> "p" [] ch = "G" -> "g"
                 [] OTHER -> ch
Lower(s) == [i \in 1..Len(s) |-> LowerOf(s[i])]

\* s.replace(pat, "") for a non-empty pat
RECURSIVE RemoveAll(_, _)
RemoveAll(s, pat) ==
    IF Len(s) < Len(pat) THEN s
    ELSE IF SubSeq(s, 1, Len(pat)) = pat
           THEN RemoveAll(SubSeq(s, Len(pat) + 1, Len(s)), pat)
           ELSE <<s[1]>> \o RemoveAll(Tail(s), pat)

AppendParam == <<"&", "a", "p", "p", "e", "n", "d", "=">>

\* line 729
ImgFormat(img_url) ==
    RemoveAll(Lower(BeforeFirst(AfterLast(img_url, "."), "?")), AppendParam)

\* os.path.join(a, b) for a relative b
Join(a, b) == a \o <<"/">> \o b

\* self.save_path, the save root shared by the chapters of one comic
SaveRoot == <<"r">>

\* the file name without the separator between the two numbers
PathToSaveNoSeparator(idx, index, img_url) ==
    Join(SaveRoot, Str(idx) \o Str(index) \o <<".">> \o ImgFormat(img_url))

\* line 730: os.path.join(self.save_path, f"{self.idx}_{index}.{img_format}")
PathToSave(idx, index, img_url) ==
    Join(SaveRoot, Str(idx) \o <<"_">> \o Str(index) \o <<".">> \o ImgFormat(img_url))

\* where downloadImg staged the page of position p of chapter 1: the
\* positions cycle through the three kinds of image URL
UrlOfPage(p) ==
    CASE p % 3 = 1 -> <<"u", ".", "j", "p", "g">>
      [] p % 3 = 2 -> <<"u", ".", "J", "P", "G", "?", "t">>
      [] OTHER -> <<"u", ".", "p", "n", "g", "&", "a", "p", "p", "e", "n", "d", "=">>
StagedPath(p) == PathToSave(1, p, UrlOfPage(p))

\* text.zfill(w) for a string of digits
ZFill(text, w) ==
    IF Len(text) >= w THEN text ELSE [i \in 1..(w - Len(text)) |-> "0"] \o text

\* the index without the padding
FolderNameUnpadded(index, img_path) ==
    Str(index) \o <<".">> \o AfterLast(img_path, ".")

\* lines 478 and 494: f"{str(index).zfill(3)}.{img_format}" with
\* img_format = img_path.split(".")[-1]
FolderName(index, img_path) ==
    ZFill(Str(index), 3) \o <<".">> \o AfterLast(img_path, ".")

\* line 601: the metadata sidecar written by comicinfoxml.serialize
SidecarName == <<"C", "o", "m", "i", "c", "I", "n", "f", "o", ".", "x", "m", "l">>

\* ------------------------------------------------------------------------
\* The file system under <save_root> and the assembly engine
\* ------------------------------------------------------------------------
SaveMethods == {"PDF", "Folder", "7z", "Zip", "Cbz"}
Containers == {"7z", "Zip", "Cbz"}

\* Chapter titles; self.epi_path = <save_root>/<title> (line 101).  The
\* sibling chapter saved earlier has the title SiblingTitle; nothing in
\* __init__ keeps two chapters' titles apart.
Titles == {"T1", "T2"}
SiblingTitle == "T1"

\* An entry of a folder or of an archive: the file name (that of the i-th
\* file of the list, or ComicInfo.xml), the staged page it came from (0 for
\* the sidecar), and whether it belongs to the chapter being saved.  The
\* archive writers store a file under its basename (lines 533, 571, 610), so
\* the folder entry and the archive entry of a file are the same record.
Entry == [name : {FolderName(i, StagedPath(p)) :
                    i \in 1..MaxImgs + 1, p \in 1..MaxImgs + 1}
                 \cup {SidecarName},
          page : 0..MaxImgs + 1, own : BOOLEAN]
OwnEntry(i, p) == [name |-> FolderName(i, StagedPath(p)), page |-> p, own |-> TRUE]
SidecarEntry == [name |-> SidecarName, page |-> 0, own |-> TRUE]
SiblingEntries == {[name |-> FolderName(1, StagedPath(1)), page |-> 1, own |-> FALSE]}

NoDir == [exists |-> FALSE, entries |-> {}]
NoFile == [exists |-> FALSE, complete |-> FALSE, entries |-> {}]
\* a file that was written and closed without error
WholeFile(es) == [exists |-> TRUE, complete |-> TRUE, entries |-> es]
\* a file that was opened for writing and not finished
PartFile(es) == [exists |-> TRUE, complete |-> FALSE, entries |-> es]

\* writing entries into a folder replaces files of the same name
PutAll(es, new) == {e \in es : \A x \in new : x.name # e.name} \cup new

\* the pages of the caller's list, as document pages / folder entries
PagesOf(paths) == {OwnEntry(i, paths[i]) : i \in 1..Len(paths)}

\* the sibling's artifact as it was written by the earlier save
SiblingDir(m) == IF m = "Folder" THEN [exists |-> TRUE, entries |-> SiblingEntries]
                 ELSE NoDir
SiblingFile(m) == IF m = "Folder" THEN NoFile ELSE WholeFile(SiblingEntries)

InitSave ==
    /\ save_method \in SaveMethods
    /\ exif_setting \in BOOLEAN
    /\ title \in Titles
    /\ \E n \in 1..MaxImgs :
          /\ imgs_path = [i \in 1..n |-> i]
          /\ staged = 1..n
    /\ dir = [t \in Titles |-> IF t = SiblingTitle THEN SiblingDir(save_method) ELSE NoDir]
    /\ file = [t \in Titles |-> IF t = SiblingTitle THEN SiblingFile(save_method) ELSE NoFile]
    /\ spc = "idle"
    /\ sattempt = 0
    /\ sresult = "none"
    /\ swarn = 0
    /\ folderWarn = FALSE
    /\ archDir = NoDir
    /\ archFailed = FALSE
    /\ stageFaults = 0

\* lines 363-389: save() dispatches on self.save_method
SaveStart ==
    /\ spc = "idle"
    /\ spc' = IF save_method = "PDF" THEN "pdf" ELSE "mkdir"
    /\ UNCHANGED <<save_method, exif_setting, title, stageFaults, imgs_path, staged, dir,
                   file, sattempt, sresult, swarn, folderWarn, archDir,
                   archFailed>>
    /\ UNCHANGED <<netVars, pureVars>>

\* where save() continues once saveToFolder has returned
AfterFolder == IF save_method = "Folder" THEN "done"
               ELSE IF save_method = "Cbz" THEN "xml" ELSE "zip"

\* save() returns the path string whenever the writer returned
AfterFolderResult == IF save_method = "Folder" THEN "path" ELSE "none"

\* lines 503-505 and 507-514: the folder is created outside the retried
\* function; an OSError of os.makedirs goes straight to the warning.
MakeDirs ==
    /\ spc = "mkdir"
    /\ \/ /\ dir' = [dir EXCEPT ![title] = [exists |-> TRUE, entries |-> @.entries]]
          /\ spc' = "move"
          /\ UNCHANGED <<swarn, folderWarn, sresult, stageFaults>>
       \/ /\ ~dir[title].exists
          /\ spc' = AfterFolder
          /\ sresult' = AfterFolderResult
          /\ swarn' = swarn + 1
          /\ folderWarn' = TRUE
          /\ stageFaults' = stageFaults + 1
          /\ UNCHANGED dir
    /\ UNCHANGED <<save_method, exif_setting, title, imgs_path, staged, file,
                   sattempt, archDir, archFailed>>
    /\ UNCHANGED <<netVars, pureVars>>

\* a copy in place of the move: the sources stay where they are
CopyStaged(st, paths, k) == st

\* shutil.move of the staged files paths[1..k]: the sources disappear
MoveStaged(st, paths, k) == st \ {paths[i] : i \in 1..k}

\* lines 458-501: one attempt of the retried move loop.  The loop always
\* starts again at index 1; it moves paths[1..k] and then either is through
\* (k = n) or fails at index k+1, which it must when that source is gone.
\* A failure on a source that is still there is a fault of the file system.
MoveAttempt ==
    /\ spc = "move"
    /\ LET n == Len(imgs_path) IN
       \E k \in 0..n :
          /\ \A i \in 1..k : imgs_path[i] \in staged
          /\ staged' = MoveStaged(staged, imgs_path, k)
          /\ stageFaults' = IF k < n /\ imgs_path[k + 1] \in staged
                              THEN stageFaults + 1 ELSE stageFaults
          /\ dir' = [dir EXCEPT ![title].entries =
                        PutAll(@, {OwnEntry(i, imgs_path[i]) : i \in 1..k})]
          /\ IF k = n
               THEN /\ spc' = AfterFolder
                    /\ sresult' = AfterFolderResult
                    /\ sattempt' = 0
                    /\ UNCHANGED <<swarn, folderWarn>>
             ELSE IF sattempt + 1 < MaxIoAttempts
               THEN /\ sattempt' = sattempt + 1
                    /\ UNCHANGED <<spc, sresult, swarn, folderWarn>>
             ELSE /\ spc' = AfterFolder
                  /\ sresult' = AfterFolderResult
                  /\ sattempt' = 0
                  /\ swarn' = swarn + 1
                  /\ folderWarn' = TRUE
    /\ UNCHANGED <<save_method, exif_setting, title, imgs_path, file, archDir,
                   archFailed>>
    /\ UNCHANGED <<netVars, pureVars>>

\* line 601: the metadata sidecar is serialized into the staged folder
SerializeXml ==
    /\ spc = "xml"
    /\ spc' = "zip"
    /\ dir' = IF dir[title].exists
                THEN [dir EXCEPT ![title].entries = PutAll(@, {SidecarEntry})]
                ELSE dir
    /\ UNCHANGED <<save_method, exif_setting, title, stageFaults, imgs_path, staged, file,
                   sattempt, sresult, swarn, folderWarn, archDir, archFailed>>
    /\ UNCHANGED <<netVars, pureVars>>


\* what os.walk(self.epi_path) yields: nothing when the folder is missing
Walk(d) == IF d.exists THEN d.entries ELSE {}

\* shutil.rmtree(self.epi_path) when it succeeds
RmTree(d) == NoDir

\* An attempt of a retried writer ended with an OSError: the next attempt
\* follows unless this was the fifth, after which the handler emits the
\* warning box and the writer returns (save() then returns the path string).
IoFail ==
    IF sattempt + 1 < MaxIoAttempts
      THEN /\ sattempt' = sattempt + 1
           /\ UNCHANGED <<spc, sresult, swarn>>
      ELSE /\ sattempt' = 0
           /\ spc' = "done"
           /\ sresult' = "path"
           /\ swarn' = swarn + 1

\* The retried function returned: the writer and save() return.
IoDone ==
    /\ sattempt' = 0
    /\ spc' = "done"
    /\ sresult' = "path"
    /\ UNCHANGED swarn

\* lines 526-542, 564-580, 603-619: one attempt of the retried archive
\* writer.  shutil.rmtree runs inside the with block, so the archive is
\* closed (by __exit__) only after the folder has been removed.
ArchiveAttempt ==
    /\ spc = "zip"
    /\ archDir' = IF sattempt = 0 /\ ~archFailed THEN dir[title] ELSE archDir
    /\ LET d == dir[title]
           D == Walk(dir[title]) IN
       \/ \* the archive cannot be opened for writing
          /\ archFailed' = TRUE
          /\ IoFail
          /\ UNCHANGED <<dir, file>>
       \/ \* z.write fails part-way; __exit__ closes what was written
          /\ \E S \in SUBSET D : file' = [file EXCEPT ![title] = PartFile(S)]
          /\ archFailed' = TRUE
          /\ IoFail
          /\ UNCHANGED dir
       \/ \* everything is written, shutil.rmtree raises: a missing folder,
          \* or a folder of which only some files could be deleted;
          \* __exit__ then closes the archive
          /\ file' = [file EXCEPT ![title] = WholeFile(D)]
          /\ IF d.exists
               THEN \E R \in SUBSET D :
                       dir' = [dir EXCEPT ![title] = [exists |-> TRUE, entries |-> R]]
               ELSE UNCHANGED dir
          /\ archFailed' = TRUE
          /\ IoFail
       \/ \* the folder is removed, then closing the archive fails
          /\ d.exists
          /\ dir' = [dir EXCEPT ![title] = RmTree(d)]
          /\ file' = [file EXCEPT ![title] = PartFile(D)]
          /\ archFailed' = TRUE
          /\ IoFail
       \/ \* the folder is removed and the archive is closed
          /\ d.exists
          /\ dir' = [dir EXCEPT ![title] = RmTree(d)]
          /\ file' = [file EXCEPT ![title] = WholeFile(D)]
          /\ IoDone
          /\ UNCHANGED archFailed
    /\ UNCHANGED <<save_method, exif_setting, title, stageFaults, imgs_path, staged,
                   folderWarn>>
    /\ UNCHANGED <<netVars, pureVars>>

\* lines 317-347: clearAfterSave deletes the staged files from the end of
\* the list and drops every deleted path from the list; within its three
\* passes it gets through the last n-k paths and keeps paths[1..k].
\* the list is left as it was
ClearedPathsKeepsAll(paths, k) == paths

ClearedPaths(paths, k) == SubSeq(paths, 1, k)
ClearedStaged(st, paths, k) == st \ {paths[i] : i \in (k + 1)..Len(paths)}

\* lines 351-359: clear(imgs_path), the abort path.  The loop deletes from
\* the end of the list, one os.remove per path and nothing around it: the
\* first deletion that fails raises out of clear, with paths[1..k] still
\* listed and on disk.
Clear ==
    /\ spc = "idle"
    /\ \E k \in 0..Len(imgs_path) :
          /\ imgs_path' = ClearedPaths(imgs_path, k)
          /\ staged' = ClearedStaged(staged, imgs_path, k)
          /\ sresult' = IF k > 0 THEN "raise" ELSE None
    /\ spc' = "cleared"
    /\ UNCHANGED <<save_method, exif_setting, title, stageFaults, dir, file, sattempt,
                   swarn, folderWarn, archDir, archFailed>>
    /\ UNCHANGED <<netVars, pureVars>>

\* @retry(stop_max_attempt_number=3) at line 324
MaxClearAttempts == 3

\* lines 324-347: one pass of clearAfterSave over the list, from its end.  A
\* pass deletes paths[k+1..n], dropping each from the list as it goes, and
\* is through (k = 0) or fails on paths[k]: os.remove raised (as it must when
\* the file is not there) or the file is still there.  After the third
\* failed pass the handler emits the warning box and the method returns.
\* sattempt counts the passes made.
ClearAfterSavePass ==
    /\ spc \in {"idle", "clearing"}
    /\ \E k \in 0..Len(imgs_path) :
          /\ \A i \in (k + 1)..Len(imgs_path) : imgs_path[i] \in staged
          /\ imgs_path' = ClearedPaths(imgs_path, k)
          /\ staged' = ClearedStaged(staged, imgs_path, k)
          /\ sattempt' = sattempt + 1
          /\ IF k = 0
               THEN /\ spc' = "swept"
                    /\ sresult' = None
                    /\ UNCHANGED swarn
             ELSE IF sattempt + 1 < MaxClearAttempts
               THEN /\ spc' = "clearing"
                    /\ UNCHANGED <<sresult, swarn>>
             ELSE /\ spc' = "swept"
                  /\ sresult' = None
                  /\ swarn' = swarn + 1
    /\ UNCHANGED <<save_method, exif_setting, title, stageFaults, dir, file,
                   folderWarn, archDir, archFailed>>
    /\ UNCHANGED <<netVars, pureVars>>

\* Image.save(<path>) that fails: Pillow removes the file if this call
\* created it and otherwise leaves the truncated file behind.
FailedImageSave(f) == IF f.exists THEN PartFile({}) ELSE NoFile

\* lines 399-448: one attempt of the retried PDF writer
PdfAttempt ==
    /\ spc = "pdf"
    /\ LET n == Len(imgs_path)
           pages == PagesOf(imgs_path) IN
       \/ \* Image.open raises OSError
          /\ n >= 1
          /\ IoFail
          /\ UNCHANGED <<imgs_path, staged, file>>
       \/ \* the list is empty: temp_imgs[0] raises IndexError, which the
          \* handler (except OSError) does not catch
          /\ n = 0
          /\ IF sattempt + 1 < MaxIoAttempts
               THEN /\ sattempt' = sattempt + 1
                    /\ UNCHANGED <<spc, sresult, swarn>>
               ELSE /\ sattempt' = 0
                    /\ spc' = "done"
                    /\ sresult' = "raise"
                    /\ UNCHANGED swarn
          /\ UNCHANGED <<imgs_path, staged, file>>
       \/ \* writing the merged document fails
          /\ n >= 1
          /\ \A i \in 1..n : imgs_path[i] \in staged
          /\ file' = [file EXCEPT ![title] = FailedImageSave(@)]
          /\ IoFail
          /\ UNCHANGED <<imgs_path, staged>>
       \/ \* the document is written, the staged files are cleared, and the
          \* metadata is stamped if configured
          /\ n >= 1
          /\ \A i \in 1..n : imgs_path[i] \in staged
          /\ \E k \in 0..n :
                /\ imgs_path' = ClearedPaths(imgs_path, k)
                /\ staged' = ClearedStaged(staged, imgs_path, k)
                /\ LET w == IF k > 0 THEN 1 ELSE 0 IN
                   \/ \* no stamping, or stamping succeeded
                      /\ file' = [file EXCEPT ![title] = WholeFile(pages)]
                      /\ sattempt' = 0
                      /\ spc' = "done"
                      /\ sresult' = "path"
                      /\ swarn' = swarn + w
                   \/ \* the document cannot be opened for reading
                      /\ exif_setting
                      /\ file' = [file EXCEPT ![title] = WholeFile(pages)]
                      /\ IF sattempt + 1 < MaxIoAttempts
                           THEN /\ sattempt' = sattempt + 1
                                /\ swarn' = swarn + w
                                /\ UNCHANGED <<spc, sresult>>
                           ELSE /\ sattempt' = 0
                                /\ spc' = "done"
                                /\ sresult' = "path"
                                /\ swarn' = swarn + w + 1
                   \/ \* open(<path>, "wb") truncates, pdf_writer.write fails
                      /\ exif_setting
                      /\ file' = [file EXCEPT ![title] = PartFile({})]
                      /\ IF sattempt + 1 < MaxIoAttempts
                           THEN /\ sattempt' = sattempt + 1
                                /\ swarn' = swarn + w
                                /\ UNCHANGED <<spc, sresult>>
                           ELSE /\ sattempt' = 0
                                /\ spc' = "done"
                                /\ sresult' = "path"
                                /\ swarn' = swarn + w + 1
    /\ UNCHANGED <<save_method, exif_setting, title, stageFaults, dir, folderWarn, archDir,
                   archFailed>>
    /\ UNCHANGED <<netVars, pureVars>>

\* ------------------------------------------------------------------------
\* Staging paths of downloadImg (lines 727-758)
\* ------------------------------------------------------------------------
\* image URLs handed to downloadImg
ImgUrls == { <<"u", ".", "j", "p", "g">>,
             <<"u", ".", "J", "P", "G", "?", "t">>,
             <<"u", ".", "p", "n", "g", "&", "a", "p", "p", "e", "n", "d", "=">> }

Workers == {"w1", "w2"}
NoReq == [idx |-> 0, index |-> 0, img_url |-> <<>>]

PathAtRest ==
    /\ wpc = [w \in Workers |-> "idle"]
    /\ wreq = [w \in Workers |-> NoReq]
    /\ wpath = [w \in Workers |-> <<>>]

\* lines 729-758: a worker's downloadImg call computes its staging path and
\* writes the image there
StagePath(w) ==
    /\ wpc[w] = "idle"
    /\ \E idx \in 1..MaxIdx, index \in 1..MaxIndex, u \in ImgUrls :
          /\ wreq' = [wreq EXCEPT ![w] = [idx |-> idx, index |-> index, img_url |-> u]]
          /\ wpath' = [wpath EXCEPT ![w] = PathToSave(idx, index, u)]
    /\ wpc' = [wpc EXCEPT ![w] = "done"]
    /\ UNCHANGED <<netVars, saveVars, titleVars, fmtVars, revVars, auxVars>>

\* ------------------------------------------------------------------------
\* Chapter titles: get_default_title and rename_title (lines 81-182)
\* ------------------------------------------------------------------------
\* The characters U+7B2C (di, "number") and U+8BDD (hua, "episode") of a
\* chapter word such as <di>12<hua>, and U+7279 U+522B U+7BC7 ("special
\* chapter"), written <di>, <hua> and <special> below.
Di == "D"
Hua == "H"

StartsWith(s, p) == Len(p) <= Len(s) /\ SubSeq(s, 1, Len(p)) = p
EndsWith(s, p) == Len(p) <= Len(s) /\ SubSeq(s, Len(s) - Len(p) + 1, Len(s)) = p
Contains(s, ch) == \E i \in 1..Len(s) : s[i] = ch
From(s, i) == SubSeq(s, i, Len(s))

\* \s, \d and [0-9\-\.] over the characters of the model
WS == {" "}
DigitChars == {Digits[i] : i \in 1..10}
NumChars == DigitChars \cup {"-", "."}

\* length of the longest run of characters of cls that starts at s[i]
RECURSIVE RunLen(_, _, _)
RunLen(s, i, cls) ==
    IF i <= Len(s) /\ s[i] \in cls THEN 1 + RunLen(s, i + 1, cls) ELSE 0

Special == <<"T", "B", "P">>

\* lines 157-162.  The test at line 159 is an "if", not an "elif": whatever
\* line 158 assigned is overwritten by one of the two branches below.
BaseTitle(short, long) ==
    LET first == IF short = long \/ long = <<>> THEN short ELSE <<>> IN
    IF StartsWith(long, short) THEN long
    ELSE short \o <<" ">> \o long

\* lines 164-166: ^(\d+)\s+<di>(\d+)<hua> with equal groups drops the leading
\* number and the white space
DropLeadingNumber(t) ==
    LET d1 == RunLen(t, 1, DigitChars)
        w  == RunLen(t, d1 + 1, WS)
        p  == d1 + w + 1
        d2 == RunLen(t, p + 1, DigitChars) IN
    IF /\ d1 >= 1 /\ w >= 1 /\ d2 >= 1
       /\ p + d2 + 1 <= Len(t)
       /\ t[p] = Di /\ t[p + d2 + 1] = Hua
       /\ SubSeq(t, 1, d1) = SubSeq(t, p + 1, p + d2)
      THEN From(t, p)
      ELSE t

\* lines 167-169: ^(\d+)\s+<di>(\d+)$ with equal groups becomes <di>N<hua>
CompleteChapterWord(t) ==
    LET d1 == RunLen(t, 1, DigitChars)
        w  == RunLen(t, d1 + 1, WS)
        p  == d1 + w + 1
        d2 == RunLen(t, p + 1, DigitChars) IN
    IF /\ d1 >= 1 /\ w >= 1 /\ d2 >= 1
       /\ p + d2 = Len(t)
       /\ t[p] = Di
       /\ SubSeq(t, 1, d1) = SubSeq(t, p + 1, p + d2)
      THEN From(t, p) \o <<Hua>>
      ELSE t

\* lines 170-171: ^<special>\s+<special> becomes <special>
CollapseSpecial(t) ==
    LET w == RunLen(t, Len(Special) + 1, WS) IN
    IF /\ StartsWith(t, Special) /\ w >= 1
       /\ StartsWith(From(t, Len(Special) + w + 1), Special)
      THEN From(t, Len(Special) + w + 1)
      ELSE t

\* lines 175-180: a leading run of [0-9\-\.] followed by <hua>, by a space or
\* by the end of the title is wrapped into <di>...<hua>
WrapNumber(t) ==
    LET n == RunLen(t, 1, NumChars) IN
    IF n >= 1 /\ n < Len(t) /\ t[n + 1] = Hua THEN <<Di>> \o t
    ELSE IF n >= 1 /\ n < Len(t) /\ t[n + 1] = " "
           THEN <<Di>> \o SubSeq(t, 1, n) \o <<Hua>> \o From(t, n + 1)
    ELSE IF n >= 1 /\ n = Len(t) THEN <<Di>> \o t \o <<Hua>>
    ELSE t

\* lines 164-180
CleanUp(t) == WrapNumber(CollapseSpecial(CompleteChapterWord(DropLeadingNumber(t))))

\* lines 148-182
get_default_title(short, long) == CleanUp(BaseTitle(short, long))

\* the tokens of the rule language (lines 125-142)
TokDefault == <<"d", "e", "f", "a", "u", "l", "t">>
TokIdx == <<"i", "d", "x">>
Tok3Idx == <<"3">> \o TokIdx
Tok4Idx == <<"4">> \o TokIdx
TokOrd == <<"o", "r", "d">>
Tok3Ord == <<"3">> \o TokOrd
Tok4Ord == <<"4">> \o TokOrd
TokShort == <<"s", "h", "o", "r", "t">>
TokLong == <<"l", "o", "n", "g">>
RuleTokens == {TokDefault, TokIdx, Tok3Idx, Tok4Idx, TokOrd, Tok3Ord, Tok4Ord,
               TokShort, TokLong}

\* "&".join(tokens): the rule string the configuration holds
RECURSIVE RuleStr(_)
RuleStr(toks) ==
    IF toks = <<>> THEN <<>>
    ELSE IF Len(toks) = 1 THEN toks[1]
    ELSE toks[1] \o <<"&">> \o RuleStr(Tail(toks))

\* s.split(ch): the list of the pieces between the separators
RECURSIVE Split(_, _)
Split(s, ch) ==
    IF ~Contains(s, ch) THEN <<s>>
    ELSE <<BeforeFirst(s, ch)>> \o Split(From(s, Len(BeforeFirst(s, ch)) + 2), ch)

\* x in list
InList(x, list) == \E i \in 1..Len(list) : list[i] = x

\* s.strip()
RECURSIVE Strip(_)
Strip(s) ==
    IF s = <<>> THEN s
    ELSE IF s[1] \in WS THEN Strip(Tail(s))
    ELSE IF s[Len(s)] \in WS THEN Strip(SubSeq(s, 1, Len(s) - 1))
    ELSE s

\* int(text) for a string of decimal digits
DigitVal(ch) == CHOOSE i \in 0..9 : Digits[i + 1] = ch
IsInt(text) == text # <<>> /\ \A i \in 1..Len(text) : text[i] \in DigitChars
RECURSIVE ParseInt(_)
ParseInt(text) ==
    IF text = <<>> THEN 0
    ELSE 10 * ParseInt(SubSeq(text, 1, Len(text) - 1)) + DigitVal(text[Len(text)])

\* f"{n:0<w>d}"
RECURSIVE ZeroPad(_, _)
ZeroPad(text, w) == IF Len(text) >= w THEN text ELSE ZeroPad(<<"0">> \o text, w)

\* self.ord is a number of the chapter list (int or float) until line 123
\* replaces it by a string; text is str(self.ord)
IntOrd(n) == [type |-> "int", text |-> Str(n)]
FloatOrd(n, frac) == [type |-> "float", text |-> Str(n) \o <<".">> \o frac]
StrOrd(text) == [type |-> "str", text |-> text]
\* the chapter list gave no ordinal (JSON null): str(None) is "None"
NoneOrd == [type |-> "none", text |-> <<"N", "o", "n", "e">>]

\* int(self.ord) can be evaluated (lines 136, 138)
CanInt(o) == IF o.type = "str" THEN IsInt(o.text) ELSE o.type # "none"
\* int(self.ord): floats are truncated
IntOf(o) == ParseInt(BeforeFirst(o.text, "."))

\* lines 113-117: "short&long" in rules looks the whole string up in the
\* list that split("&") produced
MergeTitles(rules, short, long) ==
    LET l1 == IF long = <<>> /\ InList(TokLong, rules) /\ ~InList(TokShort, rules)
                THEN short ELSE long IN
    IF StartsWith(l1, short) /\ InList(RuleStr(<<TokShort, TokLong>>), rules)
      THEN [short |-> l1, long |-> <<>>]
      ELSE [short |-> short, long |-> l1]

\* the ordinal is never split
SplitOrdNever(st, rule) == st

\* lines 122-124: the first rule ending in "ord" splits a fractional ordinal;
\* the unpacking raises ValueError unless there are exactly two parts
SplitOrd(st, rule) ==
    IF EndsWith(rule, TokOrd) /\ Contains(st.ord.text, ".")
      THEN LET parts == Split(st.ord.text, ".") IN
           IF Len(parts) = 2
             THEN [st EXCEPT !.ord = StrOrd(parts[1]),
                             !.decimal = <<".">> \o parts[2]]
             ELSE [st EXCEPT !.err = TRUE]
      ELSE st

\* lines 125-142: what one rule appends to the title
Rendering(st, rule) ==
    CASE rule = TokDefault -> st.default
      [] rule = TokIdx -> Str(st.idx)
      [] rule = Tok3Idx -> ZeroPad(Str(st.idx), 3)
      [] rule = Tok4Idx -> ZeroPad(Str(st.idx), 4)
      [] rule = TokOrd -> st.ord.text \o st.decimal
      [] rule = Tok3Ord -> ZeroPad(Str(IntOf(st.ord)), 3) \o st.decimal
      [] rule = Tok4Ord -> ZeroPad(Str(IntOf(st.ord)), 4) \o st.decimal
      [] rule = TokShort -> st.short
      [] rule = TokLong -> st.long
      [] OTHER -> <<>>

\* lines 121-142: the loop over the rules, from rule i on
RECURSIVE RenameLoop(_, _, _)
RenameLoop(rules, i, st) ==
    IF i > Len(rules) \/ st.err THEN st
    ELSE LET rule == rules[i]
             s1 == SplitOrd(st, rule) IN
         IF s1.err THEN s1
         ELSE IF rule \in {Tok3Ord, Tok4Ord} /\ ~CanInt(s1.ord)
                THEN [s1 EXCEPT !.err = TRUE]
         ELSE IF rule \in RuleTokens
                THEN RenameLoop(rules, i + 1,
                        [s1 EXCEPT !.title = @ \o <<" ">> \o Rendering(s1, rule)])
         ELSE RenameLoop(rules, i + 1, s1)

\* the title built so far replaces the default title
TitleOnErrorPartial(st, default) == Strip(st.title)

\* lines 87-99 and 144: self.title is assigned by the last statement of
\* rename_title only, so an exception leaves the default title in place
TitleOnError(st, default) == default

\* lines 104-144: the chapter's fields after rename_title; err when it raised
rename_title(rule, default, short, long, idx, ord) ==
    LET st0 == [short |-> short, long |-> long, ord |-> ord, idx |-> idx,
                default |-> default, title |-> <<>>, decimal |-> <<>>,
                err |-> FALSE] IN
    IF rule = <<>> \/ rule = TokDefault THEN [st0 EXCEPT !.title = default]
    ELSE LET rules == Split(rule, "&")
             m == MergeTitles(rules, short, long)
             st == RenameLoop(rules, 1, [st0 EXCEPT !.short = m.short, !.long = m.long]) IN
         IF st.err THEN [st EXCEPT !.title = TitleOnError(st, default)]
         ELSE [st EXCEPT !.title = Strip(@)]

\* the characters titles are drawn from, and the titles of length <= n that
\* neither begin nor end with white space
TitleChars == {"1", Di, Hua, " "}
Trimmed(t) == t = <<>> \/ (t[1] \notin WS /\ t[Len(t)] \notin WS)
TitlesUpTo(n) == {t \in UNION {[1..k -> TitleChars] : k \in 0..n} : Trimmed(t)}

\* titles of a chapter whose long title repeats the short one
Chapter1 == <<Di, "1", Hua>>
Begin == <<"k", "s">>
ShortSamples == {<<>>, Chapter1}
LongSamples == {<<>>, Chapter1, Chapter1 \o <<" ">> \o Begin, Begin,
                Special \o <<" ">> \o Special}

\* rule strings of at most n tokens
RulesUpTo(n) == {RuleStr(toks) : toks \in UNION {[1..k -> RuleTokens] : k \in 0..n}}

OrdValues == {IntOrd(n) : n \in 1..MaxOrd}
               \cup {FloatOrd(n, <<"5">>) : n \in 1..MaxOrd}
               \cup {NoneOrd}

\* a chapter as __init__ has it at line 82: either any pair of short titles
\* under the default rule, or a sample pair under any rule
InitTitle ==
    /\ \/ /\ episode \in [short_title : TitlesUpTo(MaxShortLen),
                          title : TitlesUpTo(MaxLongLen) \cup {Special \o <<" ">> \o Special},
                          ord : {IntOrd(1)}]
          /\ rename_rule \in {<<>>, TokDefault}
          /\ self_idx = 1
       \/ /\ episode \in [short_title : ShortSamples, title : LongSamples,
                          ord : OrdValues]
          /\ rename_rule \in RulesUpTo(MaxRuleLen)
          /\ self_idx \in {7, MaxIdx}
    /\ self_ord = episode.ord
    /\ short_title = episode.short_title
    /\ long_title = episode.title
    /\ self_title = <<>>
    /\ epi_path = <<>>
    /\ tpc = "new"
    /\ twarn = 0

\* the title variables while no chapter is being constructed
TitleAtRest ==
    /\ episode = [short_title |-> <<>>, title |-> <<>>, ord |-> IntOrd(1)]
    /\ rename_rule = <<>>
    /\ self_idx = 1
    /\ self_ord = IntOrd(1)
    /\ short_title = <<>>
    /\ long_title = <<>>
    /\ self_title = <<>>
    /\ epi_path = <<>>
    /\ tpc = "built"
    /\ twarn = 0

\* ------------------------------------------------------------------------
\* The format suffix of init_imgsList (lines 234-252)
\* ------------------------------------------------------------------------
Jpg == <<"j", "p", "g">>
Webp == <<"w", "e", "b", "p">>
Avif == <<"a", "v", "i", "f">>

\* the literal "@<w>w.<fmt>"
At(w, fmt) == <<"@">> \o Str(w) \o <<"w", ".">> \o fmt

\* lines 236-250: the dict display, item by item in source order
img_format_list ==
    << <<"default", <<>> >>,
       <<"jpg", At(10000, Jpg)>>,
       <<"webp", At(10000, Webp)>>,
       <<"avif", At(10000, Avif)>>,
       <<"1700jpg", At(1700, Jpg)>>,
       <<"1400jpg", At(1400, Jpg)>>,
       <<"1100jpg", At(1100, Jpg)>>,
       <<"1700webp", At(1700, Webp)>>,
       <<"1400webp", At(1400, Webp)>>,
       <<"1400webp", At(1100, Webp)>>,
       <<"1700avif", At(1700, Avif)>>,
       <<"1400avif", At(1400, Avif)>>,
       <<"1100avif", At(1100, Avif)>> >>

\* a dict display keeps, for a key given more than once, the last value
HasKey(d, k) == \E i \in 1..Len(d) : d[i][1] = k
Lookup(d, k) ==
    d[CHOOSE i \in 1..Len(d) :
         d[i][1] = k /\ \A j \in (i + 1)..Len(d) : d[j][1] # k][2]

\* the tiers the setting can name
ImgFormats ==
    {"default", "jpg", "webp", "avif", "1700jpg", "1400jpg", "1100jpg",
     "1700webp", "1400webp", "1100webp", "1700avif", "1400avif", "1100avif"}

Fragments == {<<"a">>, <<"b">>}
ImageLists == UNION {[1..n -> Fragments] : n \in 0..MaxImgs}

InitSuffix ==
    /\ img_format \in ImgFormats
    /\ images \in ImageLists
    /\ imgs_urls = <<>>
    /\ fpc = "fetched"

FmtAtRest ==
    /\ img_format = "default"
    /\ images = <<>>
    /\ imgs_urls = <<>>
    /\ fpc = "suffixed"

\* line 252: the comprehension looks the tier up once per fragment, so a
\* missing key raises KeyError on the first fragment and never on an empty
\* list; nothing between lines 234 and 252 catches it
ApplyFormatSuffix ==
    /\ fpc = "fetched"
    /\ IF images # <<>> /\ ~HasKey(img_format_list, img_format)
       THEN /\ fpc' = "KeyError"
            /\ UNCHANGED imgs_urls
       ELSE /\ fpc' = "suffixed"
            /\ imgs_urls' = [i \in 1..Len(images) |->
                               images[i] \o Lookup(img_format_list, img_format)]
    /\ UNCHANGED <<img_format, images>>
    /\ UNCHANGED <<netVars, saveVars, pathVars, titleVars, revVars, auxVars>>

\* ------------------------------------------------------------------------
\* The reversal transform of downloadImg (lines 687-702)
\* ------------------------------------------------------------------------
\* Byte strings are sequences of numbers 0..255.
\* line 701: the length of the encrypted head of the ciphertext
HeadLen == 20496
\* line 694: the slice of the decoded key parameter that is the iv
IvFrom == 60
IvTo == 76
KeyLen == 16

\* bounds of the generated buffers
MaxSeed == 1
MaxTail == 1

\* b[a:b] of Python for 0 <= a
Slice(s, a, b) == SubSeq(s, a + 1, IF b < Len(s) THEN b ELSE Len(s))

\* the bytes read with the least significant byte first
RECURSIVE IntFromBytesLittle(_)
IntFromBytesLittle(bs) ==
    IF bs = <<>> THEN 0 ELSE bs[1] + 256 * IntFromBytesLittle(Tail(bs))

\* line 698: int.from_bytes(bs), byteorder "big" by default
RECURSIVE IntFromBytes(_)
IntFromBytes(bs) ==
    IF bs = <<>> THEN 0
    ELSE 256 * IntFromBytes(SubSeq(bs, 1, Len(bs) - 1)) + bs[Len(bs)]

\* src.Utils.AES_CBCDecrypt: the plaintext as a term over its arguments
AES_CBCDecrypt(data, key, iv) ==
    [fn |-> "AES_CBCDecrypt", data |-> data, key |-> key, iv |-> iv]

\* lines 688-702: the transform on the buffer buf with the decoded key
\* parameter cc; the first element of the result stands for the bytes that
\* AES_CBCDecrypt returned
ReverseImg(buf, cc, he) ==
    IF cc = <<>> \/ ~he \/ buf = <<>> THEN [img |-> buf, exc |-> "none"]
    ELSE IF buf[1] = 0 THEN [img |-> buf, exc |-> "ValueError"]
    ELSE LET iv == Slice(cc, IvFrom, IvTo)
             data_length == IntFromBytes(Slice(buf, 1, 5))
             key == SubSeq(buf, data_length + 6, Len(buf))
             content == Slice(buf, 5, data_length + 5)
             head == AES_CBCDecrypt(Slice(content, 0, HeadLen), key, iv)
         IN  [img |-> <<head>> \o Slice(content, HeadLen, Len(content)),
              exc |-> "none"]

\* generated bytes
Bytes(seed, n) == [i \in 1..n |-> (seed + i) % 256]

\* what the server assembles: a flag byte, the ciphertext and the key
CtLens == {0, 1, HeadLen - 1} \cup {HeadLen + t : t \in 0..MaxTail}
Parts ==
    {[flag |-> f, ct |-> Bytes(sd, n), key |-> Bytes(sd + 3, k)] :
        f \in {0, 1}, sd \in 0..MaxSeed, n \in CtLens, k \in {0, KeyLen}}
NoParts == [flag |-> 0, ct |-> <<>>, key |-> <<>>]

\* the four bytes of n, most significant first
BE4(n) == <<(n \div 16777216) % 256, (n \div 65536) % 256, (n \div 256) % 256, n % 256>>

\* the buffer [flag:1][length:4][ciphertext][key material]
Encode(p) == <<p.flag>> \o BE4(Len(p.ct)) \o p.ct \o p.key

CpxChars == {Bytes(5, n) : n \in {0, IvTo, IvTo + 1}}

InitReverse ==
    /\ \/ /\ sent \in Parts
          /\ res_content = Encode(sent)
       \/ /\ sent = NoParts
          /\ res_content = <<>>
    /\ hit_encrypt \in BOOLEAN
    /\ cpx_char \in CpxChars
    /\ img = res_content
    /\ rexc = "none"
    /\ rpc = "got"

RevAtRest ==
    /\ sent = NoParts
    /\ res_content = <<>>
    /\ hit_encrypt = FALSE
    /\ cpx_char = <<>>
    /\ img = <<>>
    /\ rexc = "none"
    /\ rpc = "twice"

\* lines 687-704: the transform runs on the response; a second run is the
\* transform on a response of the same bytes
Reversal ==
    /\ rpc \in {"got", "once"}
    /\ LET o == ReverseImg(res_content, cpx_char, hit_encrypt) IN
          /\ img' = o.img
          /\ rexc' = o.exc
    /\ rpc' = IF rpc = "got" THEN "once" ELSE "twice"
    /\ UNCHANGED <<sent, res_content, hit_encrypt, cpx_char>>
    /\ UNCHANGED <<netVars, saveVars, pathVars, titleVars, fmtVars, auxVars>>

\* ------------------------------------------------------------------------
\* isDownloaded (lines 771-780)
\* ------------------------------------------------------------------------
MaxGlobLen == 2

\* line 778: re.sub(r"(\[|\])", r"[\1]", s) puts each bracket in brackets
RECURSIVE EscapeBrackets(_)
EscapeBrackets(s) ==
    IF s = <<>> THEN <<>>
    ELSE (IF s[1] \in {"[", "]"} THEN <<"[", s[1], "]">> ELSE <<s[1]>>)
         \o EscapeBrackets(Tail(s))

\* glob's match of a name against a pattern of literals, one-character
\* classes [c] and *, which stands for any characters but the separator
RECURSIVE GlobMatch(_, _)
GlobMatch(pat, s) ==
    IF pat = <<>> THEN s = <<>>
    ELSE IF pat[1] = "*"
      THEN \/ GlobMatch(Tail(pat), s)
           \/ s # <<>> /\ s[1] # "/" /\ GlobMatch(pat, Tail(s))
    ELSE IF pat[1] = "[" /\ Len(pat) >= 3 /\ pat[3] = "]"
      THEN s # <<>> /\ s[1] = pat[2] /\ GlobMatch(SubSeq(pat, 4, Len(pat)), Tail(s))
    ELSE s # <<>> /\ s[1] = pat[1] /\ GlobMatch(Tail(pat), Tail(s))

\* lines 778-780
isDownloaded(path, files) ==
    \E f \in files : GlobMatch(EscapeBrackets(path) \o <<"*">>, f)

\* titles of the chapters of one comic, and what a save leaves for a title
GlobTitles == UNION {[1..k -> {"1", "0", "[", "]"}] : k \in 1..MaxGlobLen}
ZipExt == <<".", "z", "i", "p">>
ArtifactsOf(t) == {Join(SaveRoot, t), Join(SaveRoot, t \o ZipExt)}

\* the chapter asked about has the title self_title; the disk holds some of
\* its artifacts and some of another chapter's
InitGlob ==
    /\ \E t \in GlobTitles, u \in GlobTitles :
          /\ self_title = t
          /\ epi_path = Join(SaveRoot, t)
          /\ disk \in SUBSET ({Join(SaveRoot, t)} \cup ArtifactsOf(u))
    /\ downloaded = FALSE
    /\ gpc = "ask"

GlobAtRest ==
    /\ disk = {}
    /\ downloaded = FALSE
    /\ gpc = "told"

IsDownloaded ==
    /\ gpc = "ask"
    /\ downloaded' = isDownloaded(epi_path, disk)
    /\ gpc' = "told"
    /\ UNCHANGED disk
    /\ UNCHANGED <<netVars, saveVars, pathVars, titleVars, fmtVars, revVars,
                   uiVars, searchVars>>

\* ------------------------------------------------------------------------
\* The chapter list of the UI (MangaUI.py, lines 211-334)
\* ------------------------------------------------------------------------
MaxItems == 2
MaxTasks == 2
Rows == 1..MaxItems

\* lines 219-228: the row of a chapter as updateComicInfo builds it
RowOf(isDownloaded_, isAvailable_) ==
    [enabled |-> ~isDownloaded_ /\ isAvailable_, checked |-> isDownloaded_]

\* item.flags() != Qt.NoItemFlags and item.checkState() == Qt.Checked
Ticked(it) == it.enabled /\ it.checked

\* the frame of the events of the list
OthersUnchanged ==
    UNCHANGED <<netVars, saveVars, pathVars, titleVars, fmtVars, revVars,
                globVars, searchVars>>

InitUI ==
    /\ artifact \in [Rows -> BOOLEAN]
    /\ available \in [Rows -> BOOLEAN]
    /\ chp_items = [i \in Rows |-> RowOf(artifact[i], available[i])]
    /\ num_selected = 0
    /\ tasks = [i \in Rows |-> 0]

UIAtRest ==
    /\ artifact = [i \in Rows |-> FALSE]
    /\ available = [i \in Rows |-> FALSE]
    /\ chp_items = [i \in Rows |-> RowOf(FALSE, FALSE)]
    /\ num_selected = 0
    /\ tasks = [i \in Rows |-> 0]

\* lines 211-239: the list is rebuilt for the comic
UpdateComicInfo ==
    /\ chp_items' = [i \in Rows |-> RowOf(artifact[i], available[i])]
    /\ num_selected' = 0
    /\ UNCHANGED <<tasks, artifact, available>>
    /\ OthersUnchanged

\* lines 254-264: itemClicked
ItemClicked(i) ==
    /\ chp_items[i].enabled
    /\ IF chp_items[i].checked
         THEN /\ chp_items' = [chp_items EXCEPT ![i].checked = FALSE]
              /\ num_selected' = num_selected - 1
         ELSE /\ chp_items' = [chp_items EXCEPT ![i].checked = TRUE]
              /\ num_selected' = num_selected + 1
    /\ UNCHANGED <<tasks, artifact, available>>
    /\ OthersUnchanged

\* lines 268-273, for the selected rows S
CheckSelected(S) ==
    LET hit == {i \in S : chp_items[i].enabled /\ ~chp_items[i].checked} IN
    /\ chp_items' = [i \in Rows |-> IF i \in hit
                                      THEN [chp_items[i] EXCEPT !.checked = TRUE]
                                      ELSE chp_items[i]]
    /\ num_selected' = num_selected + Cardinality(hit)
    /\ UNCHANGED <<tasks, artifact, available>>
    /\ OthersUnchanged

\* lines 275-280
UncheckSelected(S) ==
    LET hit == {i \in S : Ticked(chp_items[i])} IN
    /\ chp_items' = [i \in Rows |-> IF i \in hit
                                      THEN [chp_items[i] EXCEPT !.checked = FALSE]
                                      ELSE chp_items[i]]
    /\ num_selected' = num_selected - Cardinality(hit)
    /\ UNCHANGED <<tasks, artifact, available>>
    /\ OthersUnchanged

\* lines 282-288
CheckAll ==
    /\ chp_items' = [i \in Rows |-> IF chp_items[i].enabled
                                      THEN [chp_items[i] EXCEPT !.checked = TRUE]
                                      ELSE chp_items[i]]
    /\ num_selected' = Cardinality({i \in Rows : chp_items[i].enabled})
    /\ UNCHANGED <<tasks, artifact, available>>
    /\ OthersUnchanged

\* lines 290-295
UncheckAll ==
    /\ chp_items' = [i \in Rows |-> IF chp_items[i].enabled
                                      THEN [chp_items[i] EXCEPT !.checked = FALSE]
                                      ELSE chp_items[i]]
    /\ num_selected' = 0
    /\ UNCHANGED <<tasks, artifact, available>>
    /\ OthersUnchanged

\* line 326: item.setFlags(Qt.NoItemFlags)
Disable(it) == [it EXCEPT !.enabled = FALSE]

\* lines 310-331: download selected
DownloadSelected ==
    /\ num_selected # 0
    /\ \A i \in Rows : Ticked(chp_items[i]) => tasks[i] < MaxTasks
    /\ num_selected' = 0
    /\ tasks' = [i \in Rows |-> IF Ticked(chp_items[i])
                                  THEN tasks[i] + 1 ELSE tasks[i]]
    /\ chp_items' = [i \in Rows |-> IF Ticked(chp_items[i])
                                      THEN Disable(chp_items[i])
                                      ELSE chp_items[i]]
    /\ UNCHANGED <<artifact, available>>
    /\ OthersUnchanged

\* the download of a chapter handed to addTask ends and leaves its artifact
ArtifactAppears(i) ==
    /\ tasks[i] > 0
    /\ ~artifact[i]
    /\ artifact' = [artifact EXCEPT ![i] = TRUE]
    /\ UNCHANGED <<chp_items, num_selected, tasks, available>>
    /\ OthersUnchanged

\* ------------------------------------------------------------------------
\* SearchComic.getResults (searchComic.py, lines 33-61)
\* ------------------------------------------------------------------------
\* attempts that fit into stop_max_delay=5000 (line 39)
MaxSearchAttempts == 4
MaxHits == 2

\* how an attempt fails: the POST raises a RequestException, the status is
\* not 200, or the body of a 200 response has no data.list
SearchFailures == {"error", "non200", "nodata"}

\* the exception with which a failed attempt leaves the retried function.
\* Line 43 names an instance, requests.RequestException(), in the except
\* clause: matching the raised exception against it raises TypeError.
AttemptException(f) ==
    CASE f = "error" -> "TypeError"
      [] f = "non200" -> "HTTPError"
      [] OTHER -> "KeyError"

\* lines 53-58: the handler catches RetryError only; retry re-raises the
\* exception of the last attempt itself (wrap_exception is not set)
Caught(exc) == exc = "RetryError"

InitSearch ==
    /\ search_pc = "post"
    /\ search_log = <<>>
    /\ search_returned = "none"
    /\ search_data = <<>>
    /\ search_exc = "none"
    /\ search_warn = 0

SearchAtRest ==
    /\ search_pc = "done"
    /\ search_log = <<>>
    /\ search_returned = "list"
    /\ search_data = <<>>
    /\ search_exc = "none"
    /\ search_warn = 0

\* lines 39-61: one attempt of the retried POST and what follows it
PostSearch ==
    /\ search_pc = "post"
    /\ \/ \E n \in 0..MaxHits :
             /\ search_data' = [i \in 1..n |-> i]
             /\ search_returned' = "list"
             /\ search_pc' = "done"
             /\ UNCHANGED <<search_log, search_exc, search_warn>>
       \/ \E f \in SearchFailures :
             /\ search_log' = Append(search_log, f)
             /\ IF Len(search_log) + 1 < MaxSearchAttempts
                  THEN UNCHANGED <<search_pc, search_returned, search_data,
                                   search_exc, search_warn>>
                ELSE IF Caught(AttemptException(f))
                  THEN /\ search_pc' = "done"
                       /\ search_returned' = "list"
                       /\ search_data' = <<>>
                       /\ search_warn' = search_warn + 1
                       /\ UNCHANGED search_exc
                ELSE /\ search_pc' = "done"
                     /\ search_returned' = "raise"
                     /\ search_exc' = AttemptException(f)
                     /\ UNCHANGED <<search_data, search_warn>>
    /\ UNCHANGED <<netVars, saveVars, pathVars, titleVars, fmtVars, revVars,
                   globVars, uiVars>>

AuxAtRest == GlobAtRest /\ UIAtRest /\ SearchAtRest

PureAtRest == PathAtRest /\ TitleAtRest /\ FmtAtRest /\ RevAtRest /\ AuxAtRest

\* the normalized title is written back into the title fields
FieldsAfterDefaultMerged(short, long) == [short |-> BaseTitle(short, long), long |-> <<>>]

\* lines 148-182: get_default_title assigns to its local "title" only
FieldsAfterDefault(short, long) == [short |-> short, long |-> long]

\* line 86: self.title = self.get_default_title(); the method can be run
\* again on the chapter before the rule is applied
GetDefaultTitle ==
    /\ tpc \in {"new", "titled"}
    /\ self_title' = get_default_title(short_title, long_title)
    /\ short_title' = FieldsAfterDefault(short_title, long_title).short
    /\ long_title' = FieldsAfterDefault(short_title, long_title).long
    /\ tpc' = IF tpc = "new" THEN "titled" ELSE "retitled"
    /\ UNCHANGED <<episode, rename_rule, self_idx, self_ord, epi_path, twarn>>
    /\ UNCHANGED <<netVars, saveVars, pathVars, fmtVars, revVars, auxVars>>

\* lines 87-101: rename_title under try/except Exception, then self.epi_path
RenameTitle ==
    /\ tpc \in {"titled", "retitled"}
    /\ LET r == rename_title(rename_rule, self_title, short_title, long_title,
                             self_idx, self_ord) IN
          /\ short_title' = r.short
          /\ long_title' = r.long
          /\ self_ord' = r.ord
          /\ self_title' = r.title
          /\ twarn' = IF r.err THEN twarn + 1 ELSE twarn
          /\ epi_path' = Join(SaveRoot, r.title)
    /\ tpc' = "built"
    /\ UNCHANGED <<episode, rename_rule, self_idx>>
    /\ UNCHANGED <<netVars, saveVars, pathVars, fmtVars, revVars, auxVars>>

\* ------------------------------------------------------------------------
\* Specifications
\* ------------------------------------------------------------------------
\* the assembly variables while only the session runs
SaveAtRest ==
    /\ save_method = "Folder"
    /\ exif_setting = FALSE
    /\ title = "T2"
    /\ imgs_path = <<>>
    /\ staged = {}
    /\ dir = [t \in Titles |-> NoDir]
    /\ file = [t \in Titles |-> NoFile]
    /\ spc = "idle"
    /\ sattempt = 0
    /\ sresult = "none"
    /\ swarn = 0
    /\ folderWarn = FALSE
    /\ archDir = NoDir
    /\ archFailed = FALSE
    /\ stageFaults = 0

Init == InitNet /\ hash_check \in BOOLEAN /\ SaveAtRest /\ PureAtRest

Next ==
    \E c \in Chapters :
       \/ InitImgsListStart(c)
       \/ FetchList(c)
       \/ FetchTokens(c)
       \/ LockoutCheck(c)
       \/ SetLockout(c)
       \/ DownloadImgStart(c)
       \/ DownloadGet(c)
       \/ DownloadWrite(c)

Spec == Init /\ [][Next]_vars

InitS == InitNet /\ hash_check = FALSE /\ InitSave /\ PureAtRest

NextSave ==
    \/ SaveStart
    \/ MakeDirs
    \/ MoveAttempt
    \/ SerializeXml
    \/ ArchiveAttempt
    \/ PdfAttempt
    \/ Clear
    \/ ClearAfterSavePass

SpecSave == InitS /\ [][NextSave]_vars

\* concurrent image fetches computing and writing their staging paths
InitPath == InitNet /\ hash_check = FALSE /\ SaveAtRest /\ PureAtRest

NextPath == \E w \in Workers : StagePath(w)

SpecPath == InitPath /\ [][NextPath]_vars

\* the construction of one chapter: default title, then the rename rule
InitT ==
    /\ InitNet /\ hash_check = FALSE /\ SaveAtRest
    /\ PathAtRest /\ InitTitle /\ FmtAtRest /\ RevAtRest /\ AuxAtRest

NextTitle ==
    \/ GetDefaultTitle
    \/ RenameTitle

SpecTitle == InitT /\ [][NextTitle]_vars

\* the format suffix alone
InitF ==
    /\ InitNet /\ hash_check = FALSE /\ SaveAtRest
    /\ PathAtRest /\ TitleAtRest /\ InitSuffix /\ RevAtRest /\ AuxAtRest

NextSuffix == ApplyFormatSuffix

SpecSuffix == InitF /\ [][NextSuffix]_vars

\* the reversal transform alone
InitR ==
    /\ InitNet /\ hash_check = FALSE /\ SaveAtRest
    /\ PathAtRest /\ TitleAtRest /\ FmtAtRest /\ InitReverse /\ AuxAtRest

NextReverse == Reversal

SpecReverse == InitR /\ [][NextReverse]_vars

\* isDownloaded alone; the title variables other than the title and the
\* path are as TitleAtRest has them
InitG ==
    /\ InitNet /\ hash_check = FALSE /\ SaveAtRest
    /\ PathAtRest /\ FmtAtRest /\ RevAtRest
    /\ episode = [short_title |-> <<>>, title |-> <<>>, ord |-> IntOrd(1)]
    /\ rename_rule = <<>>
    /\ self_idx = 1
    /\ self_ord = IntOrd(1)
    /\ short_title = <<>>
    /\ long_title = <<>>
    /\ tpc = "built"
    /\ twarn = 0
    /\ InitGlob
    /\ UIAtRest
    /\ SearchAtRest

NextGlob == IsDownloaded

SpecGlob == InitG /\ [][NextGlob]_vars

\* the chapter list alone
InitU ==
    /\ InitNet /\ hash_check = FALSE /\ SaveAtRest
    /\ PathAtRest /\ TitleAtRest /\ FmtAtRest /\ RevAtRest
    /\ GlobAtRest /\ InitUI /\ SearchAtRest

NextUI ==
    \/ UpdateComicInfo
    \/ \E i \in Rows : ItemClicked(i)
    \/ \E S \in SUBSET Rows : CheckSelected(S)
    \/ \E S \in SUBSET Rows : UncheckSelected(S)
    \/ CheckAll
    \/ UncheckAll
    \/ DownloadSelected
    \/ \E i \in Rows : ArtifactAppears(i)

SpecUI == InitU /\ [][NextUI]_vars

\* the comic search alone
InitSe ==
    /\ InitNet /\ hash_check = FALSE /\ SaveAtRest
    /\ PathAtRest /\ TitleAtRest /\ FmtAtRest /\ RevAtRest
    /\ GlobAtRest /\ UIAtRest /\ InitSearch

NextSearch == PostSearch

SpecSearch == InitSe /\ [][NextSearch]_vars


\* ------------------------------------------------------------------------
\* Properties of the session (Spec)
\* ------------------------------------------------------------------------
\* chapter c has finished a call of method m
Returned(c, m) == op[c] = m /\ pc[c] = "idle"

\* the step is one of chapter c's own method (an attempt or its end)
StepOf(c) == pc'[c] # pc[c] \/ tries'[c] # tries[c]

C2_MismatchIsRetried ==
    \A c \in Chapters :
       (Returned(c, "downloadImg") /\ mismatch[c]) => result[c] \in {"path", None}

\* C3 (as claimed): every call returns normally, and every failure return
\* comes with an emitted warning or prompt.
C3_NoExceptionEscapes ==
    \A c \in Chapters :
       (pc[c] = "idle" /\ op[c] # "none") =>
          /\ result[c] # "raise"
          /\ (result[c] \in {"False", None} => warn[c] >= 1)

\* C9: when both fetches succeeded and the flag is unset at the check, the
\* resolver goes on to lock out (set the flag, emit the prompt, return False)
\* exactly if neither complete_url nor url of the first entry has the marker
\* "token="; otherwise it returns True, emits nothing and leaves the flag.
C9_LockoutIffNoToken ==
    [][\A c \in Chapters :
         /\ (pc[c] = "check" /\ pc'[c] # "check" /\ ~need_sms_verify
               /\ imgs_token[c] # <<>>) =>
               IF imgs_token[c][1].complete_url = "plain" /\ imgs_token[c][1].url = "plain"
                 THEN pc'[c] = "lock"
                 ELSE /\ pc'[c] = "idle" /\ result'[c] = "True"
                      /\ warn'[c] = warn[c]
                      /\ need_sms_verify' = need_sms_verify
         /\ (pc[c] = "lock" /\ pc'[c] # "lock") =>
               /\ pc'[c] = "idle" /\ result'[c] = "False"
               /\ need_sms_verify'
               /\ warn'[c] = warn[c] + 1
      ]_vars

\* C9 witness: a call that began with the flag unset met a first entry
\* without the marker in either URL and ended Locked.
C9_Witness ==
    \E c \in Chapters :
       /\ Returned(c, "init_imgsList") /\ ~flagAtStart[c]
       /\ imgs_token[c] # None /\ imgs_token[c] # <<>>
       /\ imgs_token[c][1] = [complete_url |-> "plain", url |-> "plain"]
       /\ result[c] = "False" /\ warn[c] = 1 /\ need_sms_verify

\* C10 (as claimed): while the lockout flag is true no downloadImg call
\* issues an image GET.
C10_NoGetUnderLockout == getUnderLock = FALSE

\* C11: a payload with a non-image content type, a key parameter and a zero
\* flag byte ends downloadImg at once in the fatal outcome: the transform ran
\* once, the call is over with an exception, no further GET follows, nothing
\* is written and no path is returned.
C11_ZeroFlagFatal ==
    \A c \in Chapters :
       (/\ last[c].kind = "payload"
        /\ last[c].hit_encrypt /\ last[c].cpx /\ last[c].flag0) =>
          /\ pc[c] = "idle"
          /\ result[c] = "raise"
          /\ last[c].reversals = 1

\* C11 witness: a download met such a payload.
C11_Witness ==
    \E c \in Chapters :
       /\ Returned(c, "downloadImg") /\ last[c].kind = "payload"
       /\ last[c].hit_encrypt /\ last[c].cpx /\ last[c].flag0
       /\ result[c] = "raise"

\* C12: a transport error or a non-200 status of the list request is
\* followed by a retry or by the end of the call, never by a token request
\* or a write of the lockout flag; when the call ends on such a failure it
\* returned False after exactly one warning.
C12_ListExhaustion ==
    /\ [](\A c \in Chapters :
            (/\ Returned(c, "init_imgsList") /\ last[c].at = "list"
             /\ last[c].kind \in {"error", "non200"}) =>
                result[c] = "False" /\ warn[c] = 1)
    /\ [][\A c \in Chapters :
            (pc[c] = "list" /\ StepOf(c) /\ last'[c].kind \in {"error", "non200"}) =>
               /\ pc'[c] \in {"list", "idle"}
               /\ need_sms_verify' = need_sms_verify]_vars

\* C12 witness: a call ended Skipped on a failing list request.
C12_Witness ==
    \E c \in Chapters :
       /\ Returned(c, "init_imgsList") /\ last[c].at = "list"
       /\ last[c].kind = "non200"
       /\ result[c] = "False" /\ warn[c] = 1 /\ ~need_sms_verify

\* C13 (as claimed): a 200 answer of the list request with code # 0 is never
\* accepted; the call retries or ends Skipped (False) with a warning.
C13_CodeNonZeroIsError ==
    \A c \in Chapters :
       (last[c].at = "list" /\ last[c].kind \in {"code_nodata", "code_data"}) =>
          /\ pc[c] \in {"list", "idle"}
          /\ (pc[c] = "idle" => result[c] = "False" /\ warn[c] = 1)

\* C14: a transport error, a non-200 status or a missing Etag header of the
\* image GET is followed by a retry or by the end of the call; when the call
\* ends on such a failure it returned None after exactly one warning, and no
\* staged file was written.
C14_GetExhaustion ==
    /\ [](\A c \in Chapters :
            (/\ Returned(c, "downloadImg") /\ last[c].at = "get"
             /\ last[c].kind \in {"error", "non200", "noetag"}) =>
                result[c] = None /\ warn[c] = 1)
    /\ [][\A c \in Chapters :
            (pc[c] = "get" /\ StepOf(c)
               /\ last'[c].kind \in {"error", "non200", "noetag"}) =>
               pc'[c] \in {"get", "idle"}]_vars

\* C14 witness: a download ended with None on a response without Etag.
C14_Witness ==
    \E c \in Chapters :
       /\ Returned(c, "downloadImg") /\ last[c].at = "get"
       /\ last[c].kind = "noetag"
       /\ result[c] = None /\ warn[c] = 1

\* C15 (as claimed): the staged bytes are the output of the reversal
\* transform whenever the content type is not an image type, and the
\* downloaded payload itself otherwise.
C15_StagedBytes ==
    \A c \in Chapters :
       (Returned(c, "downloadImg") /\ result[c] = "path") =>
          last[c].img = IF last[c].hit_encrypt THEN "reversed" ELSE "raw"

\* C17: the staged-file write is attempted at most five times; it ends with
\* the staging path when an attempt succeeds and, after a fifth failure,
\* with one warning and None.
C17_WriteBounded ==
    /\ [](\A c \in Chapters : pc[c] = "write" => tries[c] < 5)
    /\ [][\A c \in Chapters :
            (pc[c] = "write" /\ StepOf(c)) =>
               \/ pc'[c] = "write" /\ tries'[c] = tries[c] + 1
               \/ /\ pc'[c] = "idle" /\ result'[c] = "path"
                  /\ warn'[c] = warn[c]
               \/ /\ pc'[c] = "idle" /\ result'[c] = None
                  /\ tries[c] = 4 /\ warn'[c] = warn[c] + 1]_vars

\* C17 witness: the write failed five times.
C17_Witness ==
    \E c \in Chapters :
       /\ Returned(c, "downloadImg") /\ last[c].kind = "payload"
       /\ result[c] = None /\ warn[c] = 1

\* ------------------------------------------------------------------------
\* Properties of the staging paths (SpecPath)
\* ------------------------------------------------------------------------
Staged(w) == wpc[w] = "done"
SamePair(a, b) == wreq[a].idx = wreq[b].idx /\ wreq[a].index = wreq[b].index

\* C16: two downloadImg calls with different (chapter sequence index,
\* position) pairs under the same save root write different staged files,
\* whatever the order in which the workers run.
C16_DistinctStagingPaths ==
    \A a, b \in Workers :
       (Staged(a) /\ Staged(b) /\ ~SamePair(a, b)) => wpath[a] # wpath[b]

\* two workers have staged (1, 11) and (11, 1), whose digits concatenate to
\* the same string
C16_Witness ==
    \E a, b \in Workers :
       /\ Staged(a) /\ Staged(b)
       /\ wreq[a].idx = 1 /\ wreq[a].index = 11
       /\ wreq[b].idx = 11 /\ wreq[b].index = 1
       /\ wreq[a].img_url = wreq[b].img_url
       /\ wpath[a] # wpath[b]

\* ------------------------------------------------------------------------
\* Properties of the assembly engine (SpecSave)
\* ------------------------------------------------------------------------
\* save() returned its path without a warning and without an exception
Succeeded == spc = "done" /\ sresult = "path" /\ swarn = 0

\* C4 (as claimed): once an attempt of a container writer has failed, the
\* staged folder and all its files are still there as the writer found them.
C4_FolderKeptOnFailure ==
    (save_method \in Containers /\ archFailed) => dir[title] = archDir

\* C5 (as claimed): when saveToPDF is through, on a path that was free when
\* it began, a file at <title>.pdf is a completely written document, never a
\* truncated one.
C5_NoPartialPdf ==
    (save_method = "PDF" /\ spc = "done" /\ title # SiblingTitle) =>
       ~(file[title].exists /\ ~file[title].complete)

\* C6 (as claimed): if saveToFolder gave up with fewer than all pages in the
\* staged folder, the container writers leave no closed archive of this
\* chapter that lacks some of its pages.
C6_NoSubsetArchive ==
    (save_method \in Containers /\ spc = "done" /\ folderWarn /\ archDir.exists) =>
       ~(/\ file[title].exists /\ file[title].complete
         /\ \A e \in file[title].entries : e.own
         /\ ~(PagesOf(imgs_path) \subseteq file[title].entries))

\* C7: when save succeeds, the artifact exists at its path (the folder for
\* loose files, a completely written file otherwise), no staged file is left
\* at its staging path, and for the container formats the staged folder is
\* gone.
C7_SuccessLeavesOneArtifact ==
    Succeeded =>
       /\ IF save_method = "Folder"
            THEN dir[title].exists
            ELSE file[title].exists /\ file[title].complete
       /\ staged = {}
       /\ (save_method \in Containers => ~dir[title].exists)
       /\ (save_method = "PDF" => file[title].entries # {})

\* C7 witness: a container save of at least two staged images succeeded.
C7_Witness ==
    Succeeded /\ save_method \in Containers /\ Len(imgs_path) >= 2

\* C8 (as claimed): the artifact written earlier for the sibling chapter is
\* never deleted, truncated or overwritten by this chapter's save.
C8_SiblingUntouched ==
    /\ dir[SiblingTitle] = SiblingDir(save_method)
    /\ file[SiblingTitle] = SiblingFile(save_method)

\* C18 (as claimed): clear never raises to its caller and emits no warning,
\* even when a deletion fails, and the paths it leaves in the list are those
\* of files still on disk.
C18_ClearSwallows ==
    spc = "cleared" =>
       /\ sresult = None
       /\ swarn = 0
       /\ \A i \in 1..Len(imgs_path) : imgs_path[i] \in staged

\* ------------------------------------------------------------------------
\* Properties of the chapter titles (SpecTitle)
\* ------------------------------------------------------------------------
\* C19 (as claimed): the default title is the clean-up of a base chosen by
\* three exclusive cases: the short title alone when the titles are equal
\* or the long title is empty, the long title alone when it starts with the
\* short title, and short + " " + long otherwise.
C19_DefaultBaseCases ==
    tpc = "titled" =>
       self_title = CleanUp(
          IF episode.short_title = episode.title \/ episode.title = <<>>
            THEN episode.short_title
          ELSE IF StartsWith(episode.title, episode.short_title)
            THEN episode.title
          ELSE episode.short_title \o <<" ">> \o episode.title)

\* number of (non-overlapping) occurrences of p in s, p non-empty
RECURSIVE Occurrences(_, _)
Occurrences(s, p) ==
    IF Len(s) < Len(p) THEN 0
    ELSE IF StartsWith(s, p) THEN 1 + Occurrences(From(s, Len(p) + 1), p)
    ELSE Occurrences(Tail(s), p)

\* C20 (as claimed): under the rule "short&long", a chapter whose long title
\* starts with its short title gets a title that holds the short title once.
C20_ShortOnlyOnce ==
    (/\ tpc = "built"
     /\ rename_rule = RuleStr(<<TokShort, TokLong>>)
     /\ episode.short_title # <<>>
     /\ StartsWith(episode.title, episode.short_title)) =>
       Occurrences(self_title, episode.short_title) = 1

\* the chapter's default title, the tokens of its rule, and the integer
\* part and decimal suffix of its ordinal, from the fields as received
DefaultOf(e) == get_default_title(e.short_title, e.title)
TokensOf(rule) == Split(rule, "&")
IntPart(o) == BeforeFirst(o.text, ".")
DecSuffix(o) == IF Contains(o.text, ".") THEN From(o.text, Len(IntPart(o)) + 1) ELSE <<>>
Applied == rename_rule # <<>> /\ rename_rule # TokDefault
Raises == rename_title(rename_rule, DefaultOf(episode), episode.short_title,
                       episode.title, self_idx, episode.ord).err
BothTitlesRequested ==
    InList(TokShort, TokensOf(rename_rule)) /\ InList(TokLong, TokensOf(rename_rule))

\* what a token renders to; long is the rendering of the token "long"
TokenText(tok, long) ==
    CASE tok = TokDefault -> DefaultOf(episode)
      [] tok = TokIdx -> Str(self_idx)
      [] tok = Tok3Idx -> ZeroPad(Str(self_idx), 3)
      [] tok = Tok4Idx -> ZeroPad(Str(self_idx), 4)
      [] tok = TokOrd -> IntPart(episode.ord) \o DecSuffix(episode.ord)
      [] tok = Tok3Ord -> ZeroPad(IntPart(episode.ord), 3) \o DecSuffix(episode.ord)
      [] tok = Tok4Ord -> ZeroPad(IntPart(episode.ord), 4) \o DecSuffix(episode.ord)
      [] tok = TokShort -> episode.short_title
      [] tok = TokLong -> long

\* " ".join of the renderings of toks
RECURSIVE SpaceJoined(_, _)
SpaceJoined(toks, long) ==
    IF toks = <<>> THEN <<>>
    ELSE IF Len(toks) = 1 THEN TokenText(toks[1], long)
    ELSE TokenText(toks[1], long) \o <<" ">> \o SpaceJoined(Tail(toks), long)

\* C21 (as claimed): the final title is the trimmed, space-joined
\* concatenation of the tokens' renderings, the token long rendering the
\* chapter's long title.
C21_TokenRenderings ==
    (tpc = "built" /\ Applied /\ ~Raises) =>
       self_title = Strip(SpaceJoined(TokensOf(rename_rule), episode.title))

\* the rendering of long: the short title stands in for an empty long title
\* when long is requested without short (lines 113-114)
LongOrShort ==
    IF episode.title = <<>> /\ InList(TokLong, TokensOf(rename_rule))
                            /\ ~InList(TokShort, TokensOf(rename_rule))
      THEN episode.short_title
      ELSE episode.title

\* C21 (amended): the final title is the trimmed, space-joined concatenation
\* of the tokens' renderings, where long renders the long title, or the
\* short title when the long title is empty and short is not requested;
\* the rule "default" alone leaves the default title as it is.  Rules that
\* request short and long for a long title starting with the short title
\* are the subject of C20 and left out here.
C21_TokenRenderingsAmended ==
    /\ (/\ tpc = "built" /\ Applied /\ ~Raises
        /\ ~(BothTitlesRequested /\ StartsWith(episode.title, episode.short_title))) =>
          self_title = Strip(SpaceJoined(TokensOf(rename_rule), LongOrShort))
    /\ (tpc = "built" /\ ~Applied) => self_title = DefaultOf(episode)

\* the rule "3idx&short" on the chapter of index 7 gave 007 and the short title
C21_Witness ==
    /\ tpc = "built"
    /\ rename_rule = RuleStr(<<Tok3Idx, TokShort>>)
    /\ self_idx = 7
    /\ episode.short_title = Chapter1
    /\ self_title = <<"0", "0", "7", " ">> \o Chapter1

\* C22: when the rule application raises, construction still ends, with the
\* default title computed before, one warning event, and the artifact path
\* built from that default title; without an exception there is no warning.
C22_RuleErrorFallsBack ==
    tpc = "built" =>
       IF Raises
         THEN /\ self_title = DefaultOf(episode)
              /\ twarn = 1
              /\ epi_path = Join(SaveRoot, DefaultOf(episode))
         ELSE twarn = 0

\* a chapter without ordinal was built under a rule that renders the index
\* and then the padded ordinal
C22_Witness ==
    /\ tpc = "built"
    /\ episode.ord = NoneOrd
    /\ rename_rule = RuleStr(<<TokIdx, Tok3Ord>>)
    /\ twarn = 1
    /\ self_title = DefaultOf(episode)

\* C23 (as claimed): after the rule application the chapter's short title,
\* long title and ordinal are what they were before it.
C23_RenameIsPure ==
    tpc = "built" =>
       /\ short_title = episode.short_title
       /\ long_title = episode.title
       /\ self_ord = episode.ord

TierTable ==
    {<<"jpg", 10000, Jpg>>, <<"webp", 10000, Webp>>, <<"avif", 10000, Avif>>,
     <<"1700jpg", 1700, Jpg>>, <<"1400jpg", 1400, Jpg>>,
     <<"1100jpg", 1100, Jpg>>, <<"1700webp", 1700, Webp>>,
     <<"1400webp", 1400, Webp>>, <<"1100webp", 1100, Webp>>,
     <<"1700avif", 1700, Avif>>, <<"1400avif", 1400, Avif>>,
     <<"1100avif", 1100, Avif>>}
TierSuffix(k) ==
    IF k = "default" THEN <<>>
    ELSE LET t == CHOOSE t \in TierTable : t[1] = k IN At(t[2], t[3])

C25_TierSuffixApplied ==
    fpc # "fetched" =>
        /\ fpc = "suffixed"
        /\ Len(imgs_urls) = Len(images)
        /\ \A i \in 1..Len(images) :
              imgs_urls[i] = images[i] \o TierSuffix(img_format)

\* the same, for the tiers other than the two 1400/1100-width webp tiers
OtherTiersSuffixed ==
    (fpc # "fetched" /\ img_format \notin {"1400webp", "1100webp"}) =>
        /\ fpc = "suffixed"
        /\ Len(imgs_urls) = Len(images)
        /\ \A i \in 1..Len(images) :
              imgs_urls[i] = images[i] \o TierSuffix(img_format)

\* ------------------------------------------------------------------------
\* C26: saveToFolder places the i-th file of the list at
\* <save_root>/<title>/<i zero-padded to 3 digits>.<extension of that file>,
\* and a container writer stores every file of the staged folder under that
\* name at the archive root: with the N images staged, the archive holds the
\* entries 001.<ext> ... N.<ext>, named in page order, none in a directory.
\* ------------------------------------------------------------------------
\* the extension downloadImg gave the staged file of position p
ExtOfPage(p) == ImgFormat(UrlOfPage(p))

\* nm is <3 digits that read i>.<ext> and names no directory
IsPageName(nm, i, ext) ==
    LET stem == BeforeFirst(nm, ".") IN
    /\ Len(stem) = 3
    /\ IsInt(stem)
    /\ ParseInt(stem) = i
    /\ nm = stem \o <<".">> \o ext
    /\ \A j \in 1..Len(nm) : nm[j] # "/"

\* es holds the i-th file of the list under its page name
HoldsPage(es, i) ==
    \E e \in es : /\ e.own
                  /\ e.page = imgs_path[i]
                  /\ IsPageName(e.name, i, ExtOfPage(imgs_path[i]))

C26_PageNames ==
    /\ [](save_method # "PDF" =>
            \A e \in dir[title].entries :
               (e.own /\ e.page > 0) =>
                  \E i \in 1..Len(imgs_path) :
                     /\ imgs_path[i] = e.page
                     /\ IsPageName(e.name, i, ExtOfPage(e.page)))
    /\ [][(spc = "move" /\ spc' # "move" /\ ~folderWarn') =>
             \A i \in 1..Len(imgs_path) : HoldsPage(dir'[title].entries, i)]_vars
    /\ [][(spc = "zip" /\ file'[title] # file[title] /\ file'[title].complete) =>
             /\ file'[title].entries = Walk(dir[title])
             /\ PagesOf(imgs_path) \subseteq Walk(dir[title]) =>
                   \A i \in 1..Len(imgs_path) :
                      HoldsPage(file'[title].entries, i)]_vars

C26_Witness ==
    /\ Succeeded
    /\ save_method = "Zip"
    /\ Len(imgs_path) = MaxImgs
    /\ file[title].entries = PagesOf(imgs_path)
    /\ \E e \in file[title].entries :
          e.page = 2 /\ e.name = <<"0", "0", "2", ".", "j", "p", "g">>

\* ------------------------------------------------------------------------
\* C27: saveToFolder recovers from one transient fault: if the creation of
\* the folder or the move of one file failed once and nothing else went
\* wrong, staging ends with all N files in the chapter folder and without a
\* warning.
\* ------------------------------------------------------------------------
C27_TransientFaultRecovered ==
    /\ [](stageFaults <= 1 => ~folderWarn)
    /\ [][(spc \in {"mkdir", "move"} /\ spc' \notin {"mkdir", "move"}
             /\ stageFaults' <= 1) =>
             \A i \in 1..Len(imgs_path) : HoldsPage(dir'[title].entries, i)]_vars

\* a fault on the first file of the first attempt is the fault the retry
\* gets over
FirstMoveFaultRecovered ==
    [][(spc = "move" /\ spc' # "move" /\ stageFaults' <= 1
          /\ (stageFaults' = 1 => dir[title].entries \cap PagesOf(imgs_path) = {})) =>
          /\ ~folderWarn'
          /\ \A i \in 1..Len(imgs_path) : HoldsPage(dir'[title].entries, i)]_vars

\* ------------------------------------------------------------------------
\* C29: clearAfterSave makes at most 3 passes; a path leaves the list only
\* when its file is gone, and a pass deletes only files that are listed and
\* still there; on exhaustion it emits one warning and returns without
\* raising, and the list holds exactly the paths whose files are left.
\* ------------------------------------------------------------------------
Listed == {imgs_path[i] : i \in 1..Len(imgs_path)}

C29_ClearAfterSave ==
    /\ [](spc \in {"clearing", "swept"} => (sattempt <= 3 /\ Listed = staged))
    /\ [][(spc \in {"idle", "clearing"} /\ spc' \in {"clearing", "swept"}) =>
             /\ (staged \ staged') \subseteq (Listed \cap staged)
             /\ Listed \ Listed' = staged \ staged'
             /\ spc' = "clearing" => (swarn' = swarn /\ Listed' # {})
             /\ spc' = "swept" =>
                   /\ sresult' = None
                   /\ swarn' = swarn + (IF Listed' # {} THEN 1 ELSE 0)
                   /\ Listed' # {} => sattempt' = 3]_vars

C29_Witness ==
    /\ spc = "swept"
    /\ sattempt = 3
    /\ swarn = 1
    /\ sresult = None
    /\ imgs_path = <<1>>
    /\ staged = {1}
    /\ MaxImgs >= 2

\* ------------------------------------------------------------------------
\* C30 (as claimed): with chapters resolving concurrently under risk
\* control, no two calls are both past the flag test on their way to the
\* prompt, and the prompt is emitted only while the flag is still unset, so
\* at most once per session.
\* ------------------------------------------------------------------------
C30_PromptAtMostOnce ==
    /\ [](\A c, d \in Chapters : (pc[c] = "lock" /\ pc[d] = "lock") => c = d)
    /\ [][\A c \in Chapters :
             (pc[c] = "lock" /\ pc'[c] # "lock") => ~need_sms_verify]_vars

\* ------------------------------------------------------------------------
\* C28: on an obfuscated response with a key parameter, the transform takes
\* the buffer as [flag:1][length:4 big-endian][ciphertext:length][key
\* material] and leaves in img Decrypt(first 20496 bytes of the ciphertext,
\* key = the key material, iv = bytes 60..75 of the decoded key parameter)
\* followed by the rest of the ciphertext unchanged; a second run on the
\* same buffer and key parameter leaves the same bytes.
\* ------------------------------------------------------------------------
Take(s, n) == [i \in 1..(IF n < Len(s) THEN n ELSE Len(s)) |-> s[i]]
Drop(s, n) == [i \in 1..(IF n < Len(s) THEN Len(s) - n ELSE 0) |-> s[i + n]]

\* the transform applies: not an image type, a key parameter, a buffer with
\* a non-zero flag byte
Obfuscated ==
    hit_encrypt /\ cpx_char # <<>> /\ res_content # <<>> /\ sent.flag # 0

C28_ReversalTransform ==
    /\ []((rpc \in {"once", "twice"} /\ Obfuscated) =>
            /\ rexc = "none"
            /\ img = <<AES_CBCDecrypt(Take(sent.ct, 20496), sent.key,
                                      [i \in 1..16 |-> cpx_char[60 + i]])>>
                        \o Drop(sent.ct, 20496))
    /\ [][(rpc = "once" /\ rpc' = "twice") => (img' = img /\ rexc' = rexc)]_vars

C28_Witness ==
    /\ rpc = "twice"
    /\ Obfuscated
    /\ Len(sent.ct) = 20497
    /\ Len(sent.key) = 16
    /\ Len(img) = 2
    /\ img[2] = sent.ct[20497]

\* ------------------------------------------------------------------------
\* C31 (as claimed): save returns the artifact path only when the writer
\* succeeded and the artifact exists at that path, so that after a writer
\* that exhausted its retries without producing the artifact the returned
\* value is not the one returned on success.
\* ------------------------------------------------------------------------
C31_SaveReportsOutcome ==
    (spc = "done" /\ sresult = "path") =>
       IF save_method = "Folder"
         THEN dir[title].exists
         ELSE file[title].exists /\ file[title].complete

\* ------------------------------------------------------------------------
\* C32 (as claimed): isDownloaded returns true only if the folder
\* <save_root>/<title> or a file <save_root>/<title>.<ext> of this chapter
\* exists; another chapter's artifact never makes it true.
\* ------------------------------------------------------------------------
C32_OwnArtifactOnly ==
    (gpc = "told" /\ downloaded) =>
       \E f \in disk :
          \/ f = Join(SaveRoot, self_title)
          \/ /\ Len(f) > Len(epi_path) + 1
             /\ SubSeq(f, 1, Len(epi_path) + 1) = epi_path \o <<".">>
             /\ \A i \in (Len(epi_path) + 2)..Len(f) : f[i] \notin {".", "/"}

\* true is returned whenever an artifact of this chapter exists
OwnArtifactFound ==
    (gpc = "told" /\ \E f \in disk : f \in ArtifactsOf(self_title)) => downloaded

\* ------------------------------------------------------------------------
\* C33 (as claimed): after any sequence of events of the chapter list,
\* num_selected is non-negative and counts the rows that are enabled and
\* checked, and a chapter handed to addTask is disabled, so that it is
\* never handed to addTask a second time.
\* ------------------------------------------------------------------------
C33_SelectionAndTasks ==
    /\ num_selected >= 0
    /\ num_selected = Cardinality({i \in Rows : Ticked(chp_items[i])})
    /\ \A i \in Rows : tasks[i] > 0 => (~chp_items[i].enabled /\ tasks[i] = 1)

\* the count alone
NumSelectedExact ==
    /\ num_selected >= 0
    /\ num_selected = Cardinality({i \in Rows : Ticked(chp_items[i])})

\* ------------------------------------------------------------------------
\* C34 (as claimed): getResults always returns a list; when every attempt
\* within the retry budget failed with a transport error or a non-200
\* status, it shows the warning once and returns the empty list, and no
\* exception reaches the caller.
\* ------------------------------------------------------------------------
C34_AlwaysList ==
    search_pc = "done" =>
       /\ search_returned = "list"
       /\ search_exc = "none"
       /\ (/\ Len(search_log) = MaxSearchAttempts
           /\ \A i \in 1..Len(search_log) : search_log[i] \in {"error", "non200"}) =>
             (search_data = <<>> /\ search_warn = 1)
====
